---- MODULE Spec2Model ----
(***************************************************************************)
(* The reactor of agrippa (src/src/runtime.rs), the ring operations of     *)
(* src/src/io_uring_util.rs and the small futures of src/src/util.rs and   *)
(* src/src/verbs.rs, as one state machine.                                 *)
(*                                                                         *)
(* A task is a number 1..MaxTasks; the number is also the value of the     *)
(* Rc pointer that travels through sqe.user_data, and 0 is the null        *)
(* pointer.  The reactor is single threaded: user code (main before run(), *)
(* or a task body while it is polled) runs only while the loop is not      *)
(* blocked in the CQE wait.                                                *)
(***************************************************************************)
EXTENDS Integers, Sequences, FiniteSets, TLC

\* ---------------------------------------------------------------- bounds
MaxTasks    == 2   \* tasks ever spawned
RingEntries == 1   \* SQ ring size (io_uring_queue_init(128, ..), scaled down)
MaxCalls    == 2   \* cancel()/timeout() calls made through handles
RxDepth     == 1   \* Device.rx_depth (30 in the source, scaled down)
VerbsTasks  == 4   \* tasks of the verbs runs
AddrBytes   == 2   \* size_of::<VerbsAddr>() (30 in the source, scaled down)
MaxBytes    == 3   \* longest byte sequence written to a file
MaxOffset   == 1   \* largest offset given to File::write
InitialBuf  == 2   \* first size of read_all's buffer (128 * 1024 in the source)
PumpSlots   == 2   \* Device.rx_depth in the runs of the receive pump
VerbsMain   == 3   \* how many of them main spawns before run()
YieldTasks  == 4   \* tasks of the runs in which every task yields once
OpsPerTask  == 2   \* ring operations an "io" body awaits in sequence

\* ------------------------------------------------------ program constants
High   == 0
Normal == 1
Low    == 2
NOT_DONE == -2147483647 - 1   \* the "no completion yet" sentinel of the result slot

Tasks      == 1..MaxTasks
NullPtr    == 0
Priorities == {High, Normal, Low}
Res        == {-1, 0, 1}   \* cqe.res: an errno, zero, a positive count
Bodies     == {"io", "yield", "buf", "drop"}

\* TaskState (runtime.rs): a tag and, for UringDone, the result
St(tag)      == [tag |-> tag, res |-> 0]
UringDone(r) == [tag |-> "UringDone", res |-> r]
TaskStates   == {St(g) : g \in {"Inital", "Cancled", "Timeouted", "UringWaiting",
                                "UringCanceling", "UringTimeouting"}}
                  \cup {UringDone(r) : r \in Res}
\* IOUringFutureState (io_uring_util.rs)
FutureStates == {"Initial", "Sent", "Done"}

VARIABLES
  spawned,      \* tasks 1..spawned have been created by Reactor::spawn
  priority,     \* TaskContent.priority
  body,         \* which future the task runs (see Bodies)
  bpc,          \* how far the body has come
  op_state,     \* the `state` field of the ring operation the body awaits
  state,        \* TaskContent.state
  ring_result,  \* the result slot read by io_uring_poll_impl
  finished,     \* "no", or the Poll::Ready value the body returned
  rc,           \* Rc strong count of the TaskContent
  handles,      \* 1 while user code holds the Task handle spawn returned
  ready,        \* Reactor.ready: one FIFO per priority
  waiting_for_verbs_buffer,
  free_buffers, \* Device.free_buffers (how many)
  empty_read_slots,
  posted_recvs, \* receives posted on the SRQ and not completed (how many)
  posted_sends, \* wr_id of the sends posted and not completed
  verbs_cq,     \* verbs completions Device::process has not polled yet
  received,     \* QueuePair.received (how many buffers)
  qp_waiting,   \* QueuePair.waiting (0: None)
  woken,        \* tasks moved off the buffer-wait queue, not polled since (history)
  sq,           \* SQEs filled and not yet submitted
  inflight,     \* SQEs the kernel holds
  cq,           \* CQEs not yet consumed
  pc,           \* where run() is: main/loop, poll, wait, or how it ended
  cur,          \* the task popped by run() and being polled (0: none)
  ev,           \* the last step of the reactor (history)
  callLog,      \* the cancel()/timeout() calls made so far (history)
  hpc,          \* where the task of each peer of the address exchange is
  qp_state,     \* the ibv_qp_state of each peer's queue pair ("none": no QP)
  qp_trace,     \* the states the queue pair went through (history)
  modify_calls, \* the ibv_modify_qp calls made on it and their answers (history)
  holder,       \* what owns the QueuePair: a ConnectionBuilder, a Connection
  sock,         \* each peer's TCP socket
  tcp,          \* the items written to the TCP connection, per receiving peer
  item_start,   \* Socket::read_all's `start`: bytes of the item read so far
  item_written, \* Socket::write's `start`: bytes of the item written so far
  remote,       \* the VerbsAddr each peer read from the socket
  wire,         \* messages posted on the client's QP and not delivered
  hres,         \* what each peer's task returned
  fpc,          \* where the task that writes and reads back a file is
  input,        \* the bytes given to File::write
  offset,       \* the offset given to File::write
  write_start,  \* File::write's `start`
  wlog,         \* the Write operations File::write awaited (history)
  fres,         \* what File::write returned
  file,         \* the contents of the file
  data,         \* File::read_all's `data`
  read_start,   \* File::read_all's `start`
  rres,         \* what File::read_all returned
  fd_owner,     \* what holds the Fd of the written file
  close_state,  \* Close.state of the Close operation on it
  closes,       \* how many times the descriptor was closed
  read_slot,    \* Device.read_slot: the buffer stored in each slot (0: None)
  slot_stack,   \* Device.empty_read_slots as the stack of indices it is
  buffer_stack, \* Device.free_buffers as the stack of buffers it is
  srq,          \* the receives posted on the SRQ and not completed
  recv_wc,      \* receive completions Device::process has not polled yet
  user_bufs,    \* the buffers tasks got from get_verbs_buffer and hold
  pump_res      \* what the last call of Device::process returned

taskVars == <<spawned, priority, body, bpc, op_state, state, ring_result,
              finished, rc, handles>>
queueVars == <<ready, waiting_for_verbs_buffer>>
verbsVars == <<free_buffers, empty_read_slots, posted_recvs, posted_sends,
               verbs_cq, received, qp_waiting, woken>>
ringVars == <<sq, inflight, cq>>
connVars == <<hpc, qp_state, qp_trace, modify_calls, holder, sock, tcp,
              item_start, item_written, remote, wire, hres>>
fileVars == <<fpc, input, offset, write_start, wlog, fres, file, data, read_start,
              rres, fd_owner, close_state, closes>>
pumpVars == <<read_slot, slot_stack, buffer_stack, srq, recv_wc, user_bufs, pump_res>>
libVars == <<connVars, fileVars, pumpVars>>
progVars == <<taskVars, queueVars, verbsVars, ringVars, pc, cur, ev, callLog>>
vars == <<progVars, libVars>>

\* ------------------------------------------------------------- TaskQueue
EmptyQueue == [p \in Priorities |-> <<>>]

\* Push with push_front in place of push_back
Push_Front(q, t, p) == [q EXCEPT ![p] = <<t>> \o @]

\* TaskQueue::push: push_back on the band of the task's priority
Push(q, t, p) == [q EXCEPT ![p] = Append(@, t)]

\* Pop with the bands scanned from the last to the first
Pop_LowFirst(q) ==
  IF q[Low] # <<>> THEN [task |-> Head(q[Low]), q |-> [q EXCEPT ![Low] = Tail(@)]]
  ELSE IF q[Normal] # <<>>
       THEN [task |-> Head(q[Normal]), q |-> [q EXCEPT ![Normal] = Tail(@)]]
  ELSE IF q[High] # <<>>
       THEN [task |-> Head(q[High]), q |-> [q EXCEPT ![High] = Tail(@)]]
  ELSE [task |-> NullPtr, q |-> q]

\* TaskQueue::pop: the front of the first non-empty band, scanning qs[0..3]
Pop(q) ==
  IF q[High] # <<>> THEN [task |-> Head(q[High]), q |-> [q EXCEPT ![High] = Tail(@)]]
  ELSE IF q[Normal] # <<>>
       THEN [task |-> Head(q[Normal]), q |-> [q EXCEPT ![Normal] = Tail(@)]]
  ELSE IF q[Low] # <<>>
       THEN [task |-> Head(q[Low]), q |-> [q EXCEPT ![Low] = Tail(@)]]
  ELSE [task |-> NullPtr, q |-> q]

Count(s, t) == Cardinality({i \in DOMAIN s : s[i] = t})
Entries(q, t) == Count(q[High], t) + Count(q[Normal], t) + Count(q[Low], t)
Min(a, b) == IF a < b THEN a ELSE b

\* ------------------------------------------------------------- history
\* ev: the kind of step, the task it was about, the task's state before it,
\* how it ended, whether an awaited operation returned a success value in it,
\* the error the body got, the state in which an operation object was
\* dropped in it, and the ready queue TaskQueue::pop was called on.
Event(kind, t, pre, out, opOk, err, dropped, before) ==
  [kind |-> kind, task |-> t, pre |-> pre, out |-> out, opOk |-> opOk,
   err |-> err, dropped |-> dropped, before |-> before]
NoEvent ==
  Event("init", NullPtr, St("Inital"), "none", FALSE, "none", "none", EmptyQueue)

\* User code runs in main before run() and inside polls, never while run()
\* sits in the CQE wait or right after it consumed a CQE.
UserCode == pc = "loop" /\ ev.kind # "cqe"

\* ------------------------------------------------------------- Init
\* ------------------------------------------- queue pairs and connections
\* The two peers of the address exchange (examples/client.rs and
\* examples/verbs_server.rs); each runs its own reactor and owns one QP.
Peers == {"client", "server"}
Other(p) == IF p = "client" THEN "server" ELSE "client"
QpChain == <<"RESET", "INIT", "RTR", "RTS">>

\* No address exchange runs
ConnIdle ==
  /\ hpc = [p \in Peers |-> "none"]
  /\ qp_state = [p \in Peers |-> "none"]
  /\ qp_trace = [p \in Peers |-> <<>>]
  /\ modify_calls = [p \in Peers |-> <<>>]
  /\ holder = [p \in Peers |-> "none"]
  /\ sock = [p \in Peers |-> "none"]
  /\ tcp = [p \in Peers |-> <<>>]
  /\ item_start = [p \in Peers |-> 0]
  /\ item_written = [p \in Peers |-> 0]
  /\ remote = [p \in Peers |-> "none"]
  /\ wire = 0
  /\ hres = [p \in Peers |-> "none"]

\* ------------------------------------------------------------- files
Bytes == {0, 1}
ByteSeqs(n) == UNION {[1..k -> Bytes] : k \in 0..n}
Max(a, b) == IF a > b THEN a ELSE b

\* No file is open
FileIdle ==
  /\ fpc = "none"
  /\ input = <<>>
  /\ offset = 0
  /\ write_start = 0
  /\ wlog = <<>>
  /\ fres = "none"
  /\ file = <<>>
  /\ data = <<>>
  /\ read_start = 0
  /\ rres = "none"
  /\ fd_owner = "none"
  /\ close_state = "none"
  /\ closes = 0

\* ------------------------------------------------- the receive pump
\* Slots are 0..rx_depth-1, buffers are numbered from 1
Slots == 0..(PumpSlots - 1)
Buffers == 1..(2 * PumpSlots)

\* Device::new: every slot None and on the free-index stack in the order
\* pushed, rx_depth * 2 buffers on the free list
DeviceNew ==
  /\ read_slot = [n \in Slots |-> 0]
  /\ slot_stack = [i \in 1..PumpSlots |-> i - 1]
  /\ buffer_stack = [i \in 1..(2 * PumpSlots) |-> i]
  /\ srq = <<>>
  /\ recv_wc = <<>>
  /\ user_bufs = {}
  /\ pump_res = "none"

LibIdle == ConnIdle /\ FileIdle /\ DeviceNew

ReactorNew ==
  /\ spawned = 0
  /\ priority = [t \in Tasks |-> Normal]
  /\ body = [t \in Tasks |-> "io"]
  /\ bpc = [t \in Tasks |-> 0]
  /\ op_state = [t \in Tasks |-> "Initial"]
  /\ state = [t \in Tasks |-> St("Inital")]
  /\ ring_result = [t \in Tasks |-> NOT_DONE]
  /\ finished = [t \in Tasks |-> "no"]
  /\ rc = [t \in Tasks |-> 0]
  /\ handles = [t \in Tasks |-> 0]
  /\ ready = EmptyQueue
  /\ waiting_for_verbs_buffer = EmptyQueue
  /\ free_buffers = 2 * RxDepth
  /\ empty_read_slots = RxDepth
  /\ posted_recvs = 0
  /\ posted_sends = <<>>
  /\ verbs_cq = <<>>
  /\ received = 0
  /\ qp_waiting = NullPtr
  /\ woken = {}
  /\ sq = <<>>
  /\ inflight = <<>>
  /\ cq = <<>>
  /\ pc = "loop"
  /\ cur = NullPtr
  /\ ev = NoEvent
  /\ callLog = <<>>

Init == ReactorNew /\ LibIdle

\* Reactor::spawn: a new TaskContent in state Inital, one reference pushed on
\* the ready queue and one returned in the Task handle
Spawn(p, b) ==
  /\ UserCode
  /\ spawned < MaxTasks
  /\ LET t == spawned + 1 IN
       /\ spawned' = t
       /\ priority' = [priority EXCEPT ![t] = p]
       /\ body' = [body EXCEPT ![t] = b]
       /\ rc' = [rc EXCEPT ![t] = 2]
       /\ handles' = [handles EXCEPT ![t] = 1]
       /\ ready' = Push(ready, t, p)
  /\ UNCHANGED libVars
  /\ UNCHANGED <<bpc, op_state, state, ring_result, finished,
                 waiting_for_verbs_buffer, verbsVars, ringVars, pc, cur, ev, callLog>>

\* a Drop that panics on a finished operation instead
DropPanics_Done(fs) == fs = "Done"

\* impl Drop for Accept/Close/Write/Read/Connect/OpenAt: panic iff Sent
DropPanics(fs) == fs = "Sent"

\* Dropping the TaskContent drops the future; an unfinished io body owns the
\* operation it awaits.
FreePanics(t) == finished[t] = "no" /\ body[t] = "io" /\ DropPanics(op_state[t])

\* Dropping the Task handle drops its reference.  The last reference frees
\* the TaskContent and with it the future and its operation.
DropHandle(t) ==
  /\ UserCode
  /\ t <= spawned /\ handles[t] > 0
  /\ handles' = [handles EXCEPT ![t] = @ - 1]
  /\ rc' = [rc EXCEPT ![t] = @ - 1]
  /\ pc' = IF rc[t] = 1 /\ FreePanics(t) THEN "panic" ELSE pc
  /\ UNCHANGED libVars
  /\ UNCHANGED <<spawned, priority, body, bpc, op_state, state, ring_result,
                 finished, queueVars, verbsVars, ringVars, cur, ev, callLog>>

\* ------------------------------------------------------------- the ring
\* io_uring_get_sqe_submit: a free slot, or submit the batch and take one;
\* a failing submit is the error.  submitOk is what io_uring_submit answers
\* if it is called.
io_uring_get_sqe_submit(q, fl, submitOk) ==
  IF Len(q) < RingEntries THEN [ok |-> TRUE, sq |-> q, inflight |-> fl]
  ELSE IF submitOk THEN [ok |-> TRUE, sq |-> <<>>, inflight |-> fl \o q]
  ELSE [ok |-> FALSE, sq |-> q, inflight |-> fl]

\* prep_rw storing the pointer without leaking a reference
prep_rw_NoLeak(t) == [sqe |-> [opcode |-> "RW", user_data |-> t, addr |-> NullPtr],
                      leak |-> 0]

\* prep_rw: the SQE of an operation; user_data is Rc::into_raw(task), which
\* leaks one strong reference
prep_rw(t) == [sqe |-> [opcode |-> "RW", user_data |-> t, addr |-> NullPtr],
               leak |-> 1]

\* a cancel SQE that names no target
CancelSqe_NoTarget(t) ==
  [opcode |-> "ASYNC_CANCEL", user_data |-> NullPtr, addr |-> NullPtr]

\* io_uring_cancel's SQE: addr is Rc::as_ptr(task), user_data is 0
CancelSqe(t) == [opcode |-> "ASYNC_CANCEL", user_data |-> NullPtr, addr |-> t]

\* io_uring_cancel: acquire an SQE (the ? returns the error) and fill it
io_uring_cancel(t, q, fl, submitOk) ==
  LET a == io_uring_get_sqe_submit(q, fl, submitOk) IN
  [ok |-> a.ok,
   sq |-> IF a.ok THEN Append(a.sq, CancelSqe(t)) ELSE a.sq,
   inflight |-> a.inflight]

\* Task::cancel sending the cancel request from Inital as well
TaskCancel_InitalToRing(t, s, q, fl, submitOk) ==
  CASE s.tag \in {"Inital", "UringWaiting"} ->
         LET r == io_uring_cancel(t, q, fl, submitOk) IN
         [state |-> IF r.ok THEN St("UringCanceling") ELSE s,
          sq |-> r.sq, inflight |-> r.inflight, ok |-> r.ok, touched |-> TRUE]
    [] s.tag = "UringDone" ->
         [state |-> St("Cancled"), sq |-> q, inflight |-> fl, ok |-> TRUE,
          touched |-> FALSE]
    [] OTHER ->
         [state |-> s, sq |-> q, inflight |-> fl, ok |-> TRUE, touched |-> FALSE]

\* Task::cancel setting UringCanceling before the cancel request is known to
\* be in the ring
TaskCancel_SetsBeforeSqe(t, s, q, fl, submitOk) ==
  CASE s.tag = "Inital" ->
         [state |-> St("Cancled"), sq |-> q, inflight |-> fl, ok |-> TRUE,
          touched |-> FALSE]
    [] s.tag = "UringWaiting" ->
         LET r == io_uring_cancel(t, q, fl, submitOk) IN
         [state |-> St("UringCanceling"),
          sq |-> r.sq, inflight |-> r.inflight, ok |-> r.ok, touched |-> TRUE]
    [] s.tag = "UringDone" ->
         [state |-> St("Cancled"), sq |-> q, inflight |-> fl, ok |-> TRUE,
          touched |-> FALSE]
    [] OTHER ->
         [state |-> s, sq |-> q, inflight |-> fl, ok |-> TRUE, touched |-> FALSE]

\* Task::cancel as a function of the state it finds: the new state, the ring,
\* whether it returned Ok and whether it went to the ring at all
TaskCancel(t, s, q, fl, submitOk) ==
  CASE s.tag = "Inital" ->
         [state |-> St("Cancled"), sq |-> q, inflight |-> fl, ok |-> TRUE,
          touched |-> FALSE]
    [] s.tag = "UringWaiting" ->
         LET r == io_uring_cancel(t, q, fl, submitOk) IN
         [state |-> IF r.ok THEN St("UringCanceling") ELSE s,
          sq |-> r.sq, inflight |-> r.inflight, ok |-> r.ok, touched |-> TRUE]
    [] s.tag = "UringDone" ->
         [state |-> St("Cancled"), sq |-> q, inflight |-> fl, ok |-> TRUE,
          touched |-> FALSE]
    [] OTHER ->
         [state |-> s, sq |-> q, inflight |-> fl, ok |-> TRUE, touched |-> FALSE]

\* Task::timeout sending the cancel request again while UringTimeouting
TaskTimeout_Resend(t, s, q, fl, submitOk) ==
  CASE s.tag = "Inital" ->
         [state |-> St("Timeouted"), sq |-> q, inflight |-> fl, ok |-> TRUE,
          touched |-> FALSE]
    [] s.tag \in {"UringWaiting", "UringTimeouting"} ->
         LET r == io_uring_cancel(t, q, fl, submitOk) IN
         [state |-> IF r.ok THEN St("UringTimeouting") ELSE s,
          sq |-> r.sq, inflight |-> r.inflight, ok |-> r.ok, touched |-> TRUE]
    [] s.tag = "UringDone" ->
         [state |-> St("Timeouted"), sq |-> q, inflight |-> fl, ok |-> TRUE,
          touched |-> FALSE]
    [] OTHER ->
         [state |-> s, sq |-> q, inflight |-> fl, ok |-> TRUE, touched |-> FALSE]

\* Task::timeout taking over a cancellation
TaskTimeout_Replaces(t, s, q, fl, submitOk) ==
  CASE s.tag \in {"Inital", "Cancled"} ->
         [state |-> St("Timeouted"), sq |-> q, inflight |-> fl, ok |-> TRUE,
          touched |-> FALSE]
    [] s.tag = "UringWaiting" ->
         LET r == io_uring_cancel(t, q, fl, submitOk) IN
         [state |-> IF r.ok THEN St("UringTimeouting") ELSE s,
          sq |-> r.sq, inflight |-> r.inflight, ok |-> r.ok, touched |-> TRUE]
    [] s.tag = "UringCanceling" ->
         [state |-> St("UringTimeouting"), sq |-> q, inflight |-> fl, ok |-> TRUE,
          touched |-> FALSE]
    [] s.tag = "UringDone" ->
         [state |-> St("Timeouted"), sq |-> q, inflight |-> fl, ok |-> TRUE,
          touched |-> FALSE]
    [] OTHER ->
         [state |-> s, sq |-> q, inflight |-> fl, ok |-> TRUE, touched |-> FALSE]

\* Task::timeout
TaskTimeout(t, s, q, fl, submitOk) ==
  CASE s.tag = "Inital" ->
         [state |-> St("Timeouted"), sq |-> q, inflight |-> fl, ok |-> TRUE,
          touched |-> FALSE]
    [] s.tag = "UringWaiting" ->
         LET r == io_uring_cancel(t, q, fl, submitOk) IN
         [state |-> IF r.ok THEN St("UringTimeouting") ELSE s,
          sq |-> r.sq, inflight |-> r.inflight, ok |-> r.ok, touched |-> TRUE]
    [] s.tag = "UringDone" ->
         [state |-> St("Timeouted"), sq |-> q, inflight |-> fl, ok |-> TRUE,
          touched |-> FALSE]
    [] OTHER ->
         [state |-> s, sq |-> q, inflight |-> fl, ok |-> TRUE, touched |-> FALSE]

\* The SQEs a step appended to the ring (sq grows at its tail; a submit moves
\* the whole of it to the kernel)
NewSqes(q0, fl0, q1, fl1) ==
  LET all0 == fl0 \o q0
      all1 == fl1 \o q1
  IN SubSeq(all1, Len(all0) + 1, Len(all1))

\* A call of cancel() or timeout() through a handle
Call(m, t, r) ==
  /\ state' = [state EXCEPT ![t] = r.state]
  /\ sq' = r.sq
  /\ inflight' = r.inflight
  /\ callLog' = Append(callLog,
        [m |-> m, t |-> t, pre |-> state[t], post |-> r.state,
         fs |-> op_state[t], ok |-> r.ok, touched |-> r.touched,
         ringSame |-> (r.sq = sq /\ r.inflight = inflight),
         sqes |-> NewSqes(sq, inflight, r.sq, r.inflight)])
  /\ UNCHANGED libVars
  /\ UNCHANGED <<spawned, priority, body, bpc, op_state, ring_result, finished,
                 rc, handles, queueVars, verbsVars, cq, pc, cur, ev>>

Cancel(t) ==
  /\ UserCode
  /\ t <= spawned /\ handles[t] > 0 /\ Len(callLog) < MaxCalls
  /\ \E submitOk \in BOOLEAN :
       Call("cancel", t, TaskCancel(t, state[t], sq, inflight, submitOk))

Timeout(t) ==
  /\ UserCode
  /\ t <= spawned /\ handles[t] > 0 /\ Len(callLog) < MaxCalls
  /\ \E submitOk \in BOOLEAN :
       Call("timeout", t, TaskTimeout(t, state[t], sq, inflight, submitOk))

\* ------------------------------------------------------------- polls
\* io_uring_poll_impl with the closure every ring operation passes to it
\* (prep_rw): what one poll of an operation in state fs does.
RingOpPoll(t, fs, rr, q, fl, submitOk) ==
  CASE fs = "Initial" ->
         LET a == io_uring_get_sqe_submit(q, fl, submitOk) IN
         IF a.ok
         THEN [op_state |-> "Sent", res |-> "Pending", err |-> "none",
               sq |-> Append(a.sq, prep_rw(t).sqe), inflight |-> a.inflight,
               leak |-> prep_rw(t).leak]
         ELSE [op_state |-> "Done", res |-> "Err", err |-> "Io",
               sq |-> a.sq, inflight |-> a.inflight, leak |-> 0]
    [] fs = "Sent" ->
         IF rr = NOT_DONE
         THEN [op_state |-> "Sent", res |-> "Pending", err |-> "none",
               sq |-> q, inflight |-> fl, leak |-> 0]
         ELSE IF rr < 0
         THEN [op_state |-> "Done", res |-> "Err", err |-> "Io",
               sq |-> q, inflight |-> fl, leak |-> 0]
         ELSE [op_state |-> "Done", res |-> "Ok", err |-> "none",
               sq |-> q, inflight |-> fl, leak |-> 0]
    [] OTHER ->
         [op_state |-> "Done", res |-> "Err", err |-> "Internal",
          sq |-> q, inflight |-> fl, leak |-> 0]

\* What one poll of a body did.  The last four fields are for the verbs
\* futures: the sends posted, the received FIFO, the QP's waiter, and whether
\* the poll stored NOT_DONE in the task's result slot.
PollResult(out, b, fs, q, fl, leak, wake, park, free, opOk, err, dropped) ==
  [out |-> out, bpc |-> b, op_state |-> fs, sq |-> q, inflight |-> fl,
   leak |-> leak, wake |-> wake, park |-> park, free |-> free, opOk |-> opOk,
   err |-> err, dropped |-> dropped,
   posted |-> posted_sends, received |-> received, qp_waiting |-> qp_waiting,
   reset |-> FALSE]

\* An "io" body awaits OpsPerTask ring operations one after another, each
\* with `?` (examples/file.rs); a finished operation is dropped in Done.
IoBody(t, submitOk) ==
  LET o == RingOpPoll(t, op_state[t], ring_result[t], sq, inflight, submitOk) IN
  IF o.res = "Pending"
  THEN PollResult("Pending", bpc[t], o.op_state, o.sq, o.inflight, o.leak,
                  FALSE, FALSE, free_buffers, FALSE, "none", "none")
  ELSE IF o.res = "Err"
  THEN PollResult("Err", bpc[t], o.op_state, o.sq, o.inflight, o.leak,
                  FALSE, FALSE, free_buffers, FALSE, o.err, o.op_state)
  ELSE IF bpc[t] + 1 = OpsPerTask
  THEN PollResult("Ok", bpc[t] + 1, o.op_state, o.sq, o.inflight, o.leak,
                  FALSE, FALSE, free_buffers, TRUE, "none", o.op_state)
  ELSE LET n == RingOpPoll(t, "Initial", ring_result[t], o.sq, o.inflight, submitOk) IN
       PollResult(IF n.res = "Err" THEN "Err" ELSE "Pending", bpc[t] + 1,
                  n.op_state, n.sq, n.inflight, n.leak, FALSE, FALSE,
                  free_buffers, TRUE, n.err, o.op_state)

\* a Delay that is ready on its first poll
YieldBody_NeverSuspends(t) ==
  PollResult("Ok", 2, op_state[t], sq, inflight, 0, FALSE, FALSE,
             free_buffers, TRUE, "none", "none")

\* a Delay that wakes its task every time it is polled and never resolves
YieldBody_AlwaysSuspends(t) ==
  PollResult("Pending", 1, op_state[t], sq, inflight, 0, TRUE, FALSE,
             free_buffers, FALSE, "none", "none")

\* A "yield" body is delay().await: Delay::poll wakes by reference and
\* suspends the first time, and is ready the second time.
YieldBody(t) ==
  IF bpc[t] = 0
  THEN PollResult("Pending", 1, op_state[t], sq, inflight, 0, TRUE, FALSE,
                  free_buffers, FALSE, "none", "none")
  ELSE PollResult("Ok", 2, op_state[t], sq, inflight, 0, FALSE, FALSE,
                  free_buffers, TRUE, "none", "none")

\* a get_buffer that parks its caller whatever the free list holds
BufBody_AlwaysParks(t) ==
  IF bpc[t] = 0
  THEN PollResult("Pending", 0, op_state[t], sq, inflight, 0, FALSE, TRUE,
                  free_buffers, FALSE, "none", "none")
  ELSE PollResult("Ok", 2, op_state[t], sq, inflight, 0, FALSE, FALSE,
                  free_buffers + 1, TRUE, "none", "none")

\* A "buf" body is get_buffer().await, delay().await, put_buffer(b).await.
\* GetBuffer::poll pops a free buffer or parks the task on the wait queue.
BufBody(t) ==
  IF bpc[t] = 0
  THEN IF free_buffers > 0
       THEN PollResult("Pending", 1, op_state[t], sq, inflight, 0, TRUE, FALSE,
                       free_buffers - 1, TRUE, "none", "none")
       ELSE PollResult("Pending", 0, op_state[t], sq, inflight, 0, FALSE, TRUE,
                       free_buffers, FALSE, "none", "none")
  ELSE PollResult("Ok", 2, op_state[t], sq, inflight, 0, FALSE, FALSE,
                  free_buffers + 1, TRUE, "none", "none")

\* A "drop" body makes a ring operation, polls it once or not at all, and
\* drops it.
DropBody(t, submitOk, pollsFirst) ==
  LET o == IF pollsFirst
           THEN RingOpPoll(t, "Initial", ring_result[t], sq, inflight, submitOk)
           ELSE [op_state |-> "Initial", res |-> "Pending", err |-> "none",
                 sq |-> sq, inflight |-> inflight, leak |-> 0]
  IN PollResult(IF DropPanics(o.op_state) THEN "Panic" ELSE "Ok", 1,
                o.op_state, o.sq, o.inflight, o.leak, FALSE, FALSE,
                free_buffers, FALSE, o.err, o.op_state)

\* Send::poll for a Send in state fs holding a buffer; postOk is what
\* ibv_post_send answers.  A Send that becomes Done calls put_buffer(..) and
\* drops the PutBuffer it returns unpolled: the Buffer is freed by its Drop,
\* it is not pushed on free_buffers.
SendPoll(t, fs, rr, postOk) ==
  CASE fs = "Initial" ->
         IF postOk
         THEN [op_state |-> "Sent", res |-> "Pending", err |-> "none",
               posted |-> Append(posted_sends, t), leak |-> 1, reset |-> TRUE,
               returned |-> 0]
         ELSE [op_state |-> "Done", res |-> "Err", err |-> "Io",
               posted |-> posted_sends, leak |-> 0, reset |-> TRUE, returned |-> 0]
    [] fs = "Sent" ->
         IF rr = NOT_DONE
         THEN [op_state |-> "Sent", res |-> "Pending", err |-> "none",
               posted |-> posted_sends, leak |-> 0, reset |-> FALSE, returned |-> 0]
         ELSE IF rr # 0
         THEN [op_state |-> "Done", res |-> "Err", err |-> "Internal",
               posted |-> posted_sends, leak |-> 0, reset |-> FALSE, returned |-> 0]
         ELSE [op_state |-> "Done", res |-> "Ok", err |-> "none",
               posted |-> posted_sends, leak |-> 0, reset |-> FALSE, returned |-> 0]
    [] OTHER ->
         [op_state |-> "Done", res |-> "Err", err |-> "Internal",
          posted |-> posted_sends, leak |-> 0, reset |-> FALSE, returned |-> 0]

\* A "send" body is let b = get_buffer().await?; connection.send(b).await.
\* bpc is 0 until the buffer is got, 1 while the Send is awaited.
SendBody(t, postOk) ==
  IF bpc[t] = 0 /\ free_buffers = 0
  THEN PollResult("Pending", 0, op_state[t], sq, inflight, 0, FALSE, TRUE,
                  free_buffers, FALSE, "none", "none")
  ELSE LET free == IF bpc[t] = 0 THEN free_buffers - 1 ELSE free_buffers
           o == SendPoll(t, op_state[t], ring_result[t], postOk)
           r == PollResult(IF o.res = "Pending" THEN "Pending" ELSE o.res,
                           IF o.res = "Pending" THEN 1 ELSE 2, o.op_state, sq,
                           inflight, o.leak, FALSE, FALSE, free + o.returned,
                           o.res = "Ok" \/ bpc[t] = 0, o.err, "none")
       IN [r EXCEPT !.posted = o.posted, !.reset = o.reset]

\* A "recv" body is let b = connection.recv().await?; put_buffer(b).await.
\* Recv::poll takes the front of the received FIFO, or registers the task as
\* the QP's waiter; a second waiter is an error.
RecvBody(t) ==
  IF received > 0
  THEN [PollResult("Ok", 1, op_state[t], sq, inflight, 0, FALSE, FALSE,
                   free_buffers + 1, TRUE, "none", "none")
          EXCEPT !.received = received - 1]
  ELSE IF qp_waiting # NullPtr
  THEN PollResult("Err", 1, op_state[t], sq, inflight, 0, FALSE, FALSE,
                  free_buffers, FALSE, "Io", "none")
  ELSE [PollResult("Pending", 0, op_state[t], sq, inflight, 1, FALSE, FALSE,
                   free_buffers, FALSE, "none", "none")
          EXCEPT !.qp_waiting = t]

\* Polling a body that already returned Ready panics (a resumed async block).
PollBody(t, submitOk, pollsFirst) ==
  IF finished[t] # "no"
  THEN PollResult("Panic", bpc[t], op_state[t], sq, inflight, 0, FALSE, FALSE,
                  free_buffers, FALSE, "none", "none")
  ELSE CASE body[t] = "io" -> IoBody(t, submitOk)
         [] body[t] = "yield" -> YieldBody(t)
         [] body[t] = "buf" -> BufBody(t)
         [] body[t] = "send" -> SendBody(t, submitOk)
         [] body[t] = "recv" -> RecvBody(t)
         [] OTHER -> DropBody(t, submitOk, pollsFirst)

\* ------------------------------------------------------------- run()
Ended == pc \in {"panic", "ub", "err"}

\* The completions of sends of task t in a batch polled from the verbs CQ
SendsOf(c, t) == {i \in DOMAIN c : c[i].opcode = "SEND" /\ c[i].wr_id = t}
Last(S) == CHOOSE i \in S : \A j \in S : j <= i

\* Device::process on the polled completions: IBV_WC_RECV does nothing; for
\* IBV_WC_SEND the task is rebuilt from wr_id, the status is stored in its
\* result slot and the reference is dropped (the push on the ready queue is
\* commented out).
Dispatch(c) ==
  [rc |-> [t \in DOMAIN rc |-> rc[t] - Cardinality(SendsOf(c, t))],
   ring_result |-> [t \in DOMAIN ring_result |->
                      IF SendsOf(c, t) = {} THEN ring_result[t]
                      ELSE c[Last(SendsOf(c, t))].status]]

\* a wake-up that leaves the woken task on the buffer-wait queue
VerbsStep_KeepsWaiter ==
  LET n == Min(empty_read_slots, free_buffers)
      free == free_buffers - n
      d == Dispatch(verbs_cq)
      w == Pop(waiting_for_verbs_buffer)
      wakes == free > 0 /\ w.task # NullPtr
  IN [slots |-> empty_read_slots - n,
      free |-> free,
      posted_recvs |-> posted_recvs + n,
      rc |-> [t \in DOMAIN rc |-> d.rc[t] + IF wakes /\ t = w.task THEN 1 ELSE 0],
      ring_result |-> d.ring_result,
      waiting |-> waiting_for_verbs_buffer,
      ready |-> IF wakes THEN Push(ready, w.task, priority[w.task]) ELSE ready,
      woken |-> IF wakes THEN woken \cup {w.task} ELSE woken]

\* a loop head that wakes the waiter TaskQueue::pop would return last
VerbsStep_WakesLast ==
  LET n == Min(empty_read_slots, free_buffers)
      free == free_buffers - n
      d == Dispatch(verbs_cq)
      w == Pop_LowFirst(waiting_for_verbs_buffer)
      wakes == free > 0 /\ w.task # NullPtr
  IN [slots |-> empty_read_slots - n,
      free |-> free,
      posted_recvs |-> posted_recvs + n,
      rc |-> d.rc,
      ring_result |-> d.ring_result,
      waiting |-> IF wakes THEN w.q ELSE waiting_for_verbs_buffer,
      ready |-> IF wakes THEN Push(ready, w.task, priority[w.task]) ELSE ready,
      woken |-> IF wakes THEN woken \cup {w.task} ELSE woken]

\* The head of every loop iteration: Device::process posts a receive for
\* every pair of a free slot and a free buffer and drains the verbs CQ, then
\* one task waiting for a buffer is moved to the ready queue if a buffer is
\* free.
VerbsStep ==
  LET n == Min(empty_read_slots, free_buffers)
      free == free_buffers - n
      d == Dispatch(verbs_cq)
      w == Pop(waiting_for_verbs_buffer)
      wakes == free > 0 /\ w.task # NullPtr
  IN [slots |-> empty_read_slots - n,
      free |-> free,
      posted_recvs |-> posted_recvs + n,
      rc |-> d.rc,
      ring_result |-> d.ring_result,
      waiting |-> IF wakes THEN w.q ELSE waiting_for_verbs_buffer,
      ready |-> IF wakes THEN Push(ready, w.task, priority[w.task]) ELSE ready,
      woken |-> IF wakes THEN woken \cup {w.task} ELSE woken]

\* A ready task is popped and a waker is built from a clone of it.
RunPop ==
  /\ pc = "loop"
  /\ LET v == VerbsStep
         p == Pop(v.ready)
     IN /\ p.task # NullPtr
        /\ empty_read_slots' = v.slots
        /\ free_buffers' = v.free
        /\ posted_recvs' = v.posted_recvs
        /\ verbs_cq' = <<>>
        /\ ring_result' = v.ring_result
        /\ woken' = v.woken
        /\ waiting_for_verbs_buffer' = v.waiting
        /\ ready' = p.q
        /\ cur' = p.task
        /\ rc' = [v.rc EXCEPT ![p.task] = @ + 1]
        /\ ev' = Event("pop", p.task, state[p.task], "none", FALSE, "none", "none", v.ready)
  /\ pc' = "poll"
  /\ UNCHANGED libVars
  /\ UNCHANGED <<spawned, priority, body, bpc, op_state, state, finished, handles,
                 posted_sends, received, qp_waiting, ringVars, callLog>>

\* a run() that returns the error of a failed task
AfterPoll_ErrReturns(out) ==
  IF out = "Panic" THEN "panic" ELSE IF out = "Err" THEN "err" ELSE "loop"

\* The match on the value of poll: Pending, Ready(Ok) and Ready(Err) all go
\* on to `continue`; a panic in the poll unwinds through run()
AfterPoll(out) == IF out = "Panic" THEN "panic" ELSE "loop"

\* The future is polled; then the waker and the popped reference are dropped.
RunPoll ==
  /\ pc = "poll"
  /\ \E submitOk \in BOOLEAN, pollsFirst \in BOOLEAN :
       LET t == cur
           r == PollBody(t, submitOk, pollsFirst)
           q1 == IF r.wake THEN Push(ready, t, priority[t]) ELSE ready
           n == rc[t] + r.leak + (IF r.wake THEN 1 ELSE 0)
                      + (IF r.park THEN 1 ELSE 0) - 2
       IN /\ bpc' = [bpc EXCEPT ![t] = r.bpc]
          /\ op_state' = [op_state EXCEPT ![t] = r.op_state]
          /\ sq' = r.sq
          /\ inflight' = r.inflight
          /\ free_buffers' = r.free
          /\ posted_sends' = r.posted
          /\ received' = r.received
          /\ qp_waiting' = r.qp_waiting
          /\ ring_result' = IF r.reset THEN [ring_result EXCEPT ![t] = NOT_DONE]
                            ELSE ring_result
          /\ woken' = woken \ {t}
          /\ ready' = q1
          /\ waiting_for_verbs_buffer' =
               IF r.park THEN Push(waiting_for_verbs_buffer, t, priority[t])
               ELSE waiting_for_verbs_buffer
          /\ rc' = [rc EXCEPT ![t] = n]
          /\ finished' = [finished EXCEPT ![t] =
                            IF r.out \in {"Ok", "Err"} THEN r.out ELSE @]
          /\ pc' = AfterPoll(r.out)
          /\ ev' = Event("poll", t, state[t], r.out, r.opOk, r.err, r.dropped, EmptyQueue)
  /\ cur' = NullPtr
  /\ UNCHANGED libVars
  /\ UNCHANGED <<spawned, priority, body, state, handles, empty_read_slots,
                 posted_recvs, verbs_cq, cq, callLog>>

\* a run() that returns Ok when nothing is left to wait for
IdleStep_Returns(outstanding) == IF outstanding = 0 THEN "done" ELSE "wait"

\* With no task ready run() goes to the CQE wait whatever is outstanding
IdleStep(outstanding) == "wait"

\* io_uring_submit fails only when it has SQEs to hand to the kernel
SubmitAnswers(q) == IF q = <<>> THEN {TRUE} ELSE BOOLEAN

\* No task is ready: io_uring_submit (its result is not looked at), then the
\* blocking __io_uring_get_cqe.
RunBlock ==
  /\ pc = "loop"
  /\ LET v == VerbsStep IN
       /\ Pop(v.ready).task = NullPtr
       /\ empty_read_slots' = v.slots
       /\ free_buffers' = v.free
       /\ posted_recvs' = v.posted_recvs
       /\ verbs_cq' = <<>>
       /\ ring_result' = v.ring_result
       /\ rc' = v.rc
       /\ woken' = v.woken
       /\ waiting_for_verbs_buffer' = v.waiting
       /\ ready' = v.ready
       /\ \E submitOk \in SubmitAnswers(sq) :
            /\ sq' = IF submitOk THEN <<>> ELSE sq
            /\ inflight' = IF submitOk THEN inflight \o sq ELSE inflight
            /\ ev' = Event("block", NullPtr, St("Inital"),
                           IF submitOk THEN "submitted" ELSE "submit_failed",
                           FALSE, "none", "none", v.ready)
  /\ pc' = IdleStep(Len(sq) + Len(inflight) + Len(cq))
  /\ UNCHANGED libVars
  /\ UNCHANGED <<spawned, priority, body, bpc, op_state, state, finished, handles,
                 posted_sends, received, qp_waiting, cq, cur, callLog>>

\* The kernel completes a submitted SQE with some result.  It does so at any
\* time; run() looks at the completion queue only in the wait, so the
\* completions are taken there.
KernelComplete(i, res) ==
  /\ pc = "wait"
  /\ i \in DOMAIN inflight
  /\ cq' = Append(cq, [user_data |-> inflight[i].user_data, res |-> res])
  /\ inflight' = SubSeq(inflight, 1, i - 1) \o SubSeq(inflight, i + 1, Len(inflight))
  /\ UNCHANGED libVars
  /\ UNCHANGED <<taskVars, queueVars, verbsVars, sq, pc, cur, ev, callLog>>

\* a match that takes every completion for the operation's result
CqeDispatch_AllDone(s, res) ==
  CASE s.tag \in {"UringWaiting", "UringCanceling", "UringTimeouting"} ->
         [panic |-> FALSE, state |-> UringDone(res)]
    [] OTHER -> [panic |-> TRUE, state |-> s]

\* The match on the task's state when its CQE is consumed
CqeDispatch(s, res) ==
  CASE s.tag = "UringWaiting" -> [panic |-> FALSE, state |-> UringDone(res)]
    [] s.tag = "UringCanceling" -> [panic |-> FALSE, state |-> St("Cancled")]
    [] s.tag = "UringTimeouting" -> [panic |-> FALSE, state |-> St("Timeouted")]
    [] OTHER -> [panic |-> TRUE, state |-> s]

\* get_cqe returned a CQE: the task is rebuilt from user_data (a null
\* user_data is dereferenced all the same), its state is advanced, it is
\* pushed on the ready queue and the CQ head moves on.
RunCqe ==
  /\ pc = "wait"
  /\ cq # <<>>
  /\ LET t == Head(cq).user_data IN
       IF t = NullPtr
       THEN /\ pc' = "ub"
            /\ ev' = Event("cqe", t, St("Inital"), "ub", FALSE, "none", "none", EmptyQueue)
            /\ UNCHANGED <<state, rc, ready, cq>>
       ELSE LET d == CqeDispatch(state[t], Head(cq).res) IN
            /\ state' = [state EXCEPT ![t] = d.state]
            /\ pc' = IF d.panic THEN "panic" ELSE "loop"
            /\ rc' = IF d.panic THEN [rc EXCEPT ![t] = @ - 1] ELSE rc
            /\ ready' = IF d.panic THEN ready ELSE Push(ready, t, priority[t])
            /\ cq' = IF d.panic THEN cq ELSE Tail(cq)
            /\ ev' = Event("cqe", t, state[t], IF d.panic THEN "panic" ELSE "pushed",
                           FALSE, "none", "none", EmptyQueue)
  /\ UNCHANGED libVars
  /\ UNCHANGED <<spawned, priority, body, bpc, op_state, ring_result, finished,
                 handles, waiting_for_verbs_buffer, verbsVars, sq, inflight,
                 cur, callLog>>

\* get_cqe returned an error, or no error and a null CQE pointer: run()
\* returns Err.
RunCqeErr ==
  /\ pc = "wait"
  /\ pc' = "err"
  /\ \E cause \in {"get_cqe", "null_cqe"} :
       ev' = Event("cqe_err", NullPtr, St("Inital"), cause, FALSE, "none", "none",
                   EmptyQueue)
  /\ UNCHANGED libVars
  /\ UNCHANGED <<taskVars, queueVars, verbsVars, ringVars, cur, callLog>>

Next ==
  \/ \E p \in Priorities, b \in Bodies : Spawn(p, b)
  \/ \E t \in Tasks : DropHandle(t)
  \/ \E t \in Tasks : Cancel(t)
  \/ \E t \in Tasks : Timeout(t)
  \/ RunPop
  \/ RunPoll
  \/ RunBlock
  \/ \E i \in 1..MaxTasks, res \in Res : KernelComplete(i, res)
  \/ RunCqe
  \/ RunCqeErr

Spec == Init /\ [][Next]_vars

\* ------------------------------------------------------ the verbs futures
\* main spawns VerbsMain tasks that use the buffer pool and one connection,
\* at one of two priorities, drops their handles and calls run().  The ready
\* queue holds the tasks in the order of their spawn, band by band.  The
\* other tasks are spawned while run() runs; what they will be is fixed from
\* the start.
VerbsBodies == {"buf", "send", "recv"}
VerbsPriorities == {High, Normal}
InSpawnOrder(prio, n) ==
  [p \in Priorities |-> SelectSeq([i \in 1..n |-> i], LAMBDA t : prio[t] = p)]

InitVerbs ==
  /\ spawned = VerbsMain
  /\ priority \in [1..VerbsTasks -> VerbsPriorities]
  /\ body \in [1..VerbsTasks -> VerbsBodies]
  /\ bpc = [t \in 1..VerbsTasks |-> 0]
  /\ op_state = [t \in 1..VerbsTasks |-> "Initial"]
  /\ state = [t \in 1..VerbsTasks |-> St("Inital")]
  /\ ring_result = [t \in 1..VerbsTasks |-> NOT_DONE]
  /\ finished = [t \in 1..VerbsTasks |-> "no"]
  /\ rc = [t \in 1..VerbsTasks |-> IF t <= VerbsMain THEN 1 ELSE 0]
  /\ handles = [t \in 1..VerbsTasks |-> 0]
  /\ ready = InSpawnOrder(priority, VerbsMain)
  /\ waiting_for_verbs_buffer = EmptyQueue
  /\ free_buffers = 2 * RxDepth
  /\ empty_read_slots = RxDepth
  /\ posted_recvs = 0
  /\ posted_sends = <<>>
  /\ verbs_cq = <<>>
  /\ received = 0
  /\ qp_waiting = NullPtr
  /\ woken = {}
  /\ sq = <<>>
  /\ inflight = <<>>
  /\ cq = <<>>
  /\ pc = "loop"
  /\ cur = NullPtr
  /\ ev = NoEvent
  /\ callLog = <<>>
  /\ LibIdle

\* Reactor::spawn called by a task between two iterations of run(), the
\* handle it returns dropped at once: the ready queue holds the one reference.
SpawnDetached ==
  /\ pc = "loop"
  /\ spawned < VerbsTasks
  /\ LET t == spawned + 1 IN
       /\ spawned' = t
       /\ rc' = [rc EXCEPT ![t] = 1]
       /\ ready' = Push(ready, t, priority[t])
  /\ UNCHANGED libVars
  /\ UNCHANGED <<priority, body, bpc, op_state, state, ring_result, finished,
                 handles, waiting_for_verbs_buffer, verbsVars, ringVars, pc, cur,
                 ev, callLog>>

\* The device completes a posted send with some status, while run() is at the
\* head of its loop or blocked in __io_uring_get_cqe.  run() polls the verbs
\* CQ only at the head of its loop (a completion during a poll is seen exactly
\* as one at the next head).
VerbsSendComplete(i, status) ==
  /\ pc \in {"loop", "wait"}
  /\ i \in DOMAIN posted_sends
  /\ verbs_cq' = Append(verbs_cq,
                        [opcode |-> "SEND", wr_id |-> posted_sends[i], status |-> status])
  /\ posted_sends' = SubSeq(posted_sends, 1, i - 1)
                       \o SubSeq(posted_sends, i + 1, Len(posted_sends))
  /\ UNCHANGED libVars
  /\ UNCHANGED <<taskVars, queueVars, free_buffers, empty_read_slots, posted_recvs,
                 received, qp_waiting, woken, ringVars, pc, cur, ev, callLog>>

\* A message of the peer completes a posted receive.
VerbsRecvArrive ==
  /\ pc \in {"loop", "wait"}
  /\ posted_recvs > 0
  /\ posted_recvs' = posted_recvs - 1
  /\ verbs_cq' = Append(verbs_cq, [opcode |-> "RECV", wr_id |-> NullPtr, status |-> 0])
  /\ UNCHANGED libVars
  /\ UNCHANGED <<taskVars, queueVars, free_buffers, empty_read_slots, posted_sends,
                 received, qp_waiting, woken, ringVars, pc, cur, ev, callLog>>

NextVerbs ==
  \/ SpawnDetached
  \/ RunPop
  \/ RunPoll
  \/ RunBlock
  \/ RunCqeErr
  \/ \E i \in 1..VerbsTasks, status \in {0, 1} : VerbsSendComplete(i, status)
  \/ VerbsRecvArrive

SpecVerbs == InitVerbs /\ [][NextVerbs]_vars

\* run() never pauses between two iterations of its loop.  Nothing is assumed
\* of the device and the peer (VerbsSendComplete, VerbsRecvArrive) nor of a
\* failure of __io_uring_get_cqe (RunCqeErr).
\* Every task is spawned at the default priority.
InitVerbsLive == InitVerbs /\ \A t \in 1..VerbsTasks : priority[t] = Normal

SpecVerbsLive ==
  /\ InitVerbsLive
  /\ [][NextVerbs]_vars
  /\ WF_vars(RunPop)
  /\ WF_vars(RunPoll)
  /\ WF_vars(RunBlock)

\* --------------------------------------------------------------- yielding
\* main spawns 1..YieldTasks tasks at any priorities, each of them
\* delay().await, drops the handles and calls run().
InitYield ==
  /\ spawned \in 1..YieldTasks
  /\ priority \in [1..YieldTasks -> Priorities]
  /\ \A t \in 1..YieldTasks : t > spawned => priority[t] = Normal
  /\ body = [t \in 1..YieldTasks |-> "yield"]
  /\ bpc = [t \in 1..YieldTasks |-> 0]
  /\ op_state = [t \in 1..YieldTasks |-> "Initial"]
  /\ state = [t \in 1..YieldTasks |-> St("Inital")]
  /\ ring_result = [t \in 1..YieldTasks |-> NOT_DONE]
  /\ finished = [t \in 1..YieldTasks |-> "no"]
  /\ rc = [t \in 1..YieldTasks |-> IF t <= spawned THEN 1 ELSE 0]
  /\ handles = [t \in 1..YieldTasks |-> 0]
  /\ ready = InSpawnOrder(priority, spawned)
  /\ waiting_for_verbs_buffer = EmptyQueue
  /\ free_buffers = 2 * RxDepth
  /\ empty_read_slots = RxDepth
  /\ posted_recvs = 0
  /\ posted_sends = <<>>
  /\ verbs_cq = <<>>
  /\ received = 0
  /\ qp_waiting = NullPtr
  /\ woken = {}
  /\ sq = <<>>
  /\ inflight = <<>>
  /\ cq = <<>>
  /\ pc = "loop"
  /\ cur = NullPtr
  /\ ev = NoEvent
  /\ callLog = <<>>
  /\ LibIdle

NextYield ==
  \/ RunPop
  \/ RunPoll
  \/ RunBlock
  \/ RunCqeErr

SpecYield == InitYield /\ [][NextYield]_vars

\* run() is a loop on the thread that called it: while a task is ready it
\* goes on popping and polling.
SpecYieldLive ==
  InitYield /\ [][NextYield]_vars /\ WF_vars(RunPop) /\ WF_vars(RunPoll)

\* ------------------------------------------------- the methods on their own
\* Task::cancel and Task::timeout are functions of the TaskState they find
\* and of the ring.  SpecUnit applies them to every value of TaskState, with
\* the operation of task 1 in any IOUringFutureState and the submission queue
\* holding any number of SQEs of task 2.
InitUnit ==
  /\ spawned = 2
  /\ priority = [t \in Tasks |-> Normal]
  /\ body = [t \in Tasks |-> "io"]
  /\ bpc = [t \in Tasks |-> 0]
  /\ op_state \in [Tasks -> FutureStates]
  /\ \A t \in Tasks : t # 1 => op_state[t] = "Sent"
  /\ state \in [Tasks -> TaskStates]
  /\ \A t \in Tasks : t # 1 => state[t] = St("UringWaiting")
  /\ ring_result = [t \in Tasks |-> NOT_DONE]
  /\ finished = [t \in Tasks |-> "no"]
  /\ \E n \in 0..RingEntries :
       /\ sq = [i \in 1..n |-> prep_rw(2).sqe]
       /\ rc = [t \in Tasks |-> IF t = 1 THEN 1 ELSE IF t = 2 THEN n ELSE 0]
  /\ handles = [t \in Tasks |-> IF t = 1 THEN 1 ELSE 0]
  /\ ready = EmptyQueue
  /\ waiting_for_verbs_buffer = EmptyQueue
  /\ free_buffers = 2 * RxDepth
  /\ empty_read_slots = RxDepth
  /\ posted_recvs = 0
  /\ posted_sends = <<>>
  /\ verbs_cq = <<>>
  /\ received = 0
  /\ qp_waiting = NullPtr
  /\ woken = {}
  /\ inflight = <<>>
  /\ cq = <<>>
  /\ pc = "loop"
  /\ cur = NullPtr
  /\ ev = NoEvent
  /\ callLog = <<>>
  /\ LibIdle

\* io_uring_get_sqe_submit step by step.  io_uring_get_sqe yields a slot or
\* null; on null the batch is submitted; io_uring_submit answers an error,
\* or a count >= 0 with the kernel having taken the SQEs, or a count >= 0
\* with the ring still full; only the error ends the loop.
SqeGet ==
  /\ pc \in {"loop", "sqe_get"}
  /\ pc' = IF Len(sq) < RingEntries THEN "sqe_ok" ELSE "sqe_submit"
  /\ ev' = Event("get_sqe", NullPtr, St("Inital"),
                 IF Len(sq) < RingEntries THEN "sqe" ELSE "null",
                 FALSE, "none", "none", EmptyQueue)
  /\ UNCHANGED libVars
  /\ UNCHANGED <<taskVars, queueVars, verbsVars, ringVars, cur, callLog>>

SqeSubmit(answer) ==
  /\ pc = "sqe_submit"
  /\ pc' = IF answer = "error" THEN "sqe_err" ELSE "sqe_get"
  /\ sq' = IF answer = "taken" THEN <<>> ELSE sq
  /\ inflight' = IF answer = "taken" THEN inflight \o sq ELSE inflight
  /\ ev' = Event("submit", NullPtr, St("Inital"), answer, FALSE, "none", "none",
                 EmptyQueue)
  /\ UNCHANGED libVars
  /\ UNCHANGED <<taskVars, queueVars, verbsVars, cq, cur, callLog>>

NextUnit ==
  \/ Cancel(1)
  \/ Timeout(1)
  \/ SqeGet
  \/ \E answer \in {"error", "taken", "none_taken"} : SqeSubmit(answer)

SpecUnit == InitUnit /\ [][NextUnit]_vars

\* ------------------------------------------------ the CQE step of run()
\* The match of run() on the task's state when a CQE is consumed expects a
\* task whose operation was submitted to be UringWaiting.  SpecWait runs the
\* reactor from there: every task has one operation in the kernel's hands,
\* its token in the SQE, the handle with user code, and the state
\* UringWaiting; user code cancels or times out through the handles, the
\* kernel completes what it holds, run() consumes.
InitWait ==
  /\ spawned = MaxTasks
  /\ priority \in [Tasks -> Priorities]
  /\ body = [t \in Tasks |-> "io"]
  /\ bpc = [t \in Tasks |-> 0]
  /\ op_state = [t \in Tasks |-> "Sent"]
  /\ state = [t \in Tasks |-> St("UringWaiting")]
  /\ ring_result = [t \in Tasks |-> NOT_DONE]
  /\ finished = [t \in Tasks |-> "no"]
  /\ rc = [t \in Tasks |-> 1 + prep_rw(t).leak]
  /\ handles = [t \in Tasks |-> 1]
  /\ ready = EmptyQueue
  /\ waiting_for_verbs_buffer = EmptyQueue
  /\ free_buffers = 2 * RxDepth
  /\ empty_read_slots = RxDepth
  /\ posted_recvs = 0
  /\ posted_sends = <<>>
  /\ verbs_cq = <<>>
  /\ received = 0
  /\ qp_waiting = NullPtr
  /\ woken = {}
  /\ sq = <<>>
  /\ inflight = [t \in Tasks |-> prep_rw(t).sqe]
  /\ cq = <<>>
  /\ pc = "loop"
  /\ cur = NullPtr
  /\ ev = NoEvent
  /\ callLog = <<>>
  /\ LibIdle

NextWait ==
  \/ \E t \in Tasks : Cancel(t)
  \/ \E t \in Tasks : Timeout(t)
  \/ RunPop
  \/ RunPoll
  \/ RunBlock
  \/ \E i \in 1..(MaxTasks + MaxCalls), res \in Res : KernelComplete(i, res)
  \/ RunCqe
  \/ RunCqeErr

SpecWait == InitWait /\ [][NextWait]_vars

\* ------------------------------------------------- the address exchange
\* QueuePair::new: ibv_create_qp gives a QP in RESET, ibv_modify_qp takes it
\* to INIT.  When the modify fails the QueuePair is dropped, which destroys
\* the QP.
QueuePairNew(createOk, initOk) ==
  IF ~createOk
  THEN [ok |-> FALSE, state |-> "none", trace |-> <<>>, calls |-> <<>>,
        destroyed |-> FALSE]
  ELSE IF ~initOk
  THEN [ok |-> FALSE, state |-> "RESET", trace |-> <<"RESET">>,
        calls |-> <<[to |-> "INIT", ok |-> FALSE]>>, destroyed |-> TRUE]
  ELSE [ok |-> TRUE, state |-> "INIT", trace |-> <<"RESET", "INIT">>,
        calls |-> <<[to |-> "INIT", ok |-> TRUE]>>, destroyed |-> FALSE]

\* a connect that goes on to the second modify after the first one failed
QueuePairConnect_IgnoresRtr(st, rtrOk, rtsOk) ==
  [ok |-> rtsOk,
   state |-> IF rtsOk THEN "RTS" ELSE IF rtrOk THEN "RTR" ELSE st,
   steps |-> (IF rtrOk THEN <<"RTR">> ELSE <<>>) \o (IF rtsOk THEN <<"RTS">> ELSE <<>>),
   calls |-> <<[to |-> "RTR", ok |-> rtrOk], [to |-> "RTS", ok |-> rtsOk]>>]

\* QueuePair::connect: modify to RTR, then modify to RTS; the first failure
\* returns the OS error.
QueuePairConnect(st, rtrOk, rtsOk) ==
  IF ~rtrOk
  THEN [ok |-> FALSE, state |-> st, steps |-> <<>>,
        calls |-> <<[to |-> "RTR", ok |-> FALSE]>>]
  ELSE IF ~rtsOk
  THEN [ok |-> FALSE, state |-> "RTR", steps |-> <<"RTR">>,
        calls |-> <<[to |-> "RTR", ok |-> TRUE], [to |-> "RTS", ok |-> FALSE]>>]
  ELSE [ok |-> TRUE, state |-> "RTS", steps |-> <<"RTR", "RTS">>,
        calls |-> <<[to |-> "RTR", ok |-> TRUE], [to |-> "RTS", ok |-> TRUE]>>]

\* Both example programs have spawned their task and called run(): the
\* server listens, the client is about to connect.
InitConn ==
  /\ ReactorNew
  /\ hpc = [p \in Peers |-> IF p = "client" THEN "tcp_connect" ELSE "accept"]
  /\ qp_state = [p \in Peers |-> "none"]
  /\ qp_trace = [p \in Peers |-> <<>>]
  /\ modify_calls = [p \in Peers |-> <<>>]
  /\ holder = [p \in Peers |-> "none"]
  /\ sock = [p \in Peers |-> "none"]
  /\ tcp = [p \in Peers |-> <<>>]
  /\ item_start = [p \in Peers |-> 0]
  /\ item_written = [p \in Peers |-> 0]
  /\ remote = [p \in Peers |-> "none"]
  /\ wire = 0
  /\ hres = [p \in Peers |-> "none"]
  /\ FileIdle /\ DeviceNew

\* A `?` that returns the error ends the task: its Socket is dropped (closed
\* synchronously) and so is the ConnectionBuilder with its QueuePair.
Dropped(p, h) == IF h[p] \in {"builder", "connection"} THEN [h EXCEPT ![p] = "destroyed"] ELSE h
Closed(p, k) == IF k[p] = "open" THEN [k EXCEPT ![p] = "closed"] ELSE k

\* client: connect("127.0.0.1:1234").await?
ClientTcpConnect(ioOk) ==
  /\ hpc["client"] = "tcp_connect"
  /\ sock' = [sock EXCEPT !["client"] = IF ioOk THEN "open" ELSE "none"]
  /\ hpc' = [hpc EXCEPT !["client"] = IF ioOk THEN "verbs_connect" ELSE "failed"]
  /\ hres' = [hres EXCEPT !["client"] = IF ioOk THEN @ ELSE "Err"]
  /\ UNCHANGED <<progVars, fileVars, pumpVars, qp_state, qp_trace, modify_calls, holder, tcp,
                 item_start, item_written, remote, wire>>

\* server: listener.accept().await? and the spawn of the handler task
ServerAccept(ioOk) ==
  /\ hpc["server"] = "accept"
  /\ sock["client"] # "none"
  /\ sock' = [sock EXCEPT !["server"] = IF ioOk THEN "open" ELSE "closed"]
  /\ hpc' = [hpc EXCEPT !["server"] = IF ioOk THEN "read_addr" ELSE "failed"]
  /\ hres' = [hres EXCEPT !["server"] = IF ioOk THEN @ ELSE "Err"]
  /\ UNCHANGED <<progVars, fileVars, pumpVars, qp_state, qp_trace, modify_calls, holder, tcp,
                 item_start, item_written, remote, wire>>

\* verbs::connect().await?: Connect::poll calls QueuePair::new
VerbsConnect(p, createOk, initOk) ==
  /\ hpc[p] = "verbs_connect"
  /\ LET r == QueuePairNew(createOk, initOk) IN
       /\ qp_state' = [qp_state EXCEPT ![p] = r.state]
       /\ qp_trace' = [qp_trace EXCEPT ![p] = r.trace]
       /\ modify_calls' = [modify_calls EXCEPT ![p] = r.calls]
       /\ holder' = [holder EXCEPT ![p] = IF r.ok THEN "builder"
                                          ELSE IF r.destroyed THEN "destroyed" ELSE "none"]
       /\ hpc' = [hpc EXCEPT ![p] = IF r.ok THEN "write_addr" ELSE "failed"]
       /\ hres' = [hres EXCEPT ![p] = IF r.ok THEN @ ELSE "Err"]
       /\ sock' = IF r.ok THEN sock ELSE Closed(p, sock)
  /\ UNCHANGED <<progVars, fileVars, pumpVars, tcp, item_start, item_written, remote, wire>>

\* socket.write_item(&addr): Socket::write writes until the item is out;
\* one Write takes some of the bytes left or fails (an OS error, or the peer
\* closed the connection).  The client ignores the result of write_item, the
\* server returns the error.
WriteAddr(p, ioOk, n) ==
  /\ hpc[p] = "write_addr"
  /\ LET ok == ioOk /\ sock[Other(p)] # "closed"
         put == item_written[p] + n
         fails == ~ok /\ p = "server"
         after == IF p = "client" THEN "read_addr" ELSE "qp_connect"
     IN /\ ok => put <= AddrBytes
        /\ ~ok => n = 1
        /\ item_written' = IF ok THEN [item_written EXCEPT ![p] = put] ELSE item_written
        /\ tcp' = IF ok THEN [tcp EXCEPT ![Other(p)] = @ \o [i \in 1..n |-> p]]
                  ELSE tcp
        /\ hpc' = [hpc EXCEPT ![p] = IF fails THEN "failed"
                                     ELSE IF ok /\ put < AddrBytes THEN "write_addr"
                                     ELSE after]
        /\ hres' = [hres EXCEPT ![p] = IF fails THEN "Err" ELSE @]
        /\ sock' = IF fails THEN Closed(p, sock) ELSE sock
        /\ holder' = IF fails THEN Dropped(p, holder) ELSE holder
  /\ UNCHANGED <<progVars, fileVars, pumpVars, qp_state, qp_trace, modify_calls, item_start, remote,
                 wire>>

\* socket.read_item().await?: Socket::read_all reads until the item is
\* complete; one Read gives some of the bytes the peer wrote, 0 bytes
\* (Error::Eof) when the peer closed, or an OS error, and it does not
\* complete before any of these.
ReadAddr(p, ioOk, n) ==
  /\ hpc[p] = "read_addr"
  /\ tcp[p] # <<>> \/ sock[Other(p)] = "closed" \/ ~ioOk
  /\ LET ok == ioOk /\ tcp[p] # <<>>
         got == item_start[p] + n
     IN /\ ok => n <= Len(tcp[p]) /\ got <= AddrBytes
        /\ ~ok => n = 1
        /\ item_start' = IF ok THEN [item_start EXCEPT ![p] = got] ELSE item_start
        /\ remote' = IF ok /\ got = AddrBytes
                     THEN [remote EXCEPT ![p] = tcp[p][n]] ELSE remote
        /\ tcp' = IF ok THEN [tcp EXCEPT ![p] = SubSeq(@, n + 1, Len(@))] ELSE tcp
        /\ hpc' = [hpc EXCEPT ![p] = IF ~ok THEN "failed"
                                     ELSE IF got < AddrBytes THEN "read_addr"
                                     ELSE IF p = "client" THEN "close" ELSE "verbs_connect"]
        /\ hres' = [hres EXCEPT ![p] = IF ok THEN @ ELSE "Err"]
        /\ sock' = IF ok THEN sock ELSE Closed(p, sock)
        /\ holder' = IF ok THEN holder ELSE Dropped(p, holder)
  /\ UNCHANGED <<progVars, fileVars, pumpVars, qp_state, qp_trace, modify_calls, item_written, wire>>

\* client: socket.close().await?; the descriptor is closed by the ring
\* whatever the result, an error ends the task.
ClientClose(closeOk) ==
  /\ hpc["client"] = "close"
  /\ sock' = [sock EXCEPT !["client"] = "closed"]
  /\ hpc' = [hpc EXCEPT !["client"] = IF closeOk THEN "qp_connect" ELSE "failed"]
  /\ hres' = [hres EXCEPT !["client"] = IF closeOk THEN @ ELSE "Err"]
  /\ holder' = IF closeOk THEN holder ELSE Dropped("client", holder)
  /\ UNCHANGED <<progVars, fileVars, pumpVars, qp_state, qp_trace, modify_calls, tcp, item_start,
                 item_written, remote, wire>>

\* connection_builder.connect(&remote_addr)?: ConnectionBuilder::connect
\* moves the QueuePair out of the builder, calls QueuePair::connect and wraps
\* it in a Connection; on an error the QueuePair is dropped.
QpConnect(p, rtrOk, rtsOk) ==
  /\ hpc[p] = "qp_connect"
  /\ LET r == QueuePairConnect(qp_state[p], rtrOk, rtsOk) IN
       /\ qp_state' = [qp_state EXCEPT ![p] = r.state]
       /\ qp_trace' = [qp_trace EXCEPT ![p] = @ \o r.steps]
       /\ modify_calls' = [modify_calls EXCEPT ![p] = @ \o r.calls]
       /\ holder' = [holder EXCEPT ![p] = IF r.ok THEN "connection" ELSE "destroyed"]
       /\ hpc' = [hpc EXCEPT ![p] = IF ~r.ok THEN "failed"
                                    ELSE IF p = "client" THEN "send" ELSE "recv"]
       /\ hres' = [hres EXCEPT ![p] = IF r.ok THEN @ ELSE "Err"]
       /\ sock' = IF r.ok THEN sock ELSE Closed(p, sock)
  /\ UNCHANGED <<progVars, fileVars, pumpVars, tcp, item_start, item_written, remote, wire>>

\* client: get_buffer().await? and the first poll of conn.send(buffer): the
\* message is posted on the QP.
ClientSend ==
  /\ hpc["client"] = "send"
  /\ wire' = wire + 1
  /\ hpc' = [hpc EXCEPT !["client"] = "sent"]
  /\ UNCHANGED <<progVars, fileVars, pumpVars, qp_state, qp_trace, modify_calls, holder, sock, tcp,
                 item_start, item_written, remote, hres>>

\* The device delivers a posted message to the server's QP once that QP can
\* receive.
VerbsDeliver ==
  /\ wire > 0
  /\ holder["server"] = "connection"
  /\ wire' = wire - 1
  /\ UNCHANGED <<progVars, fileVars, pumpVars, hpc, qp_state, qp_trace, modify_calls, holder, sock, tcp,
                 item_start, item_written, remote, hres>>

NextConn ==
  \/ \E ioOk \in BOOLEAN : ClientTcpConnect(ioOk)
  \/ \E ioOk \in BOOLEAN : ServerAccept(ioOk)
  \/ \E p \in Peers, createOk \in BOOLEAN, initOk \in BOOLEAN :
       VerbsConnect(p, createOk, initOk)
  \/ \E p \in Peers, ioOk \in BOOLEAN, n \in 1..AddrBytes : WriteAddr(p, ioOk, n)
  \/ \E p \in Peers, ioOk \in BOOLEAN, n \in 1..AddrBytes : ReadAddr(p, ioOk, n)
  \/ \E closeOk \in BOOLEAN : ClientClose(closeOk)
  \/ \E p \in Peers, rtrOk \in BOOLEAN, rtsOk \in BOOLEAN : QpConnect(p, rtrOk, rtsOk)
  \/ ClientSend
  \/ VerbsDeliver

SpecConn == InitConn /\ [][NextConn]_vars

\* ------------------------------------------- a file written and read back
\* A task creates a file, writes `input` at `offset`, closes the file (or
\* drops it), opens it again and calls read_all.  Each await of a ring
\* operation is a step; the operation answers as Write::poll, Read::poll and
\* Close::poll can answer.
InitFile ==
  /\ ReactorNew
  /\ ConnIdle /\ DeviceNew
  /\ fpc = "created"
  /\ input \in ByteSeqs(MaxBytes)
  /\ offset \in 0..MaxOffset
  /\ write_start = 0
  /\ wlog = <<>>
  /\ fres = "none"
  /\ file = <<>>
  /\ data = <<>>
  /\ read_start = 0
  /\ rres = "none"
  /\ fd_owner = "file"
  /\ close_state = "none"
  /\ closes = 0

\* IORING_OP_WRITE of the bytes bs at the 0-based offset off
WriteAt(f, off, bs) ==
  [i \in 1..Max(Len(f), off + Len(bs)) |->
     IF i > off /\ i <= off + Len(bs) THEN bs[i - off]
     ELSE IF i <= Len(f) THEN f[i] ELSE 0]

\* Vec::resize(n, 0)
Resize(d, n) == [i \in 1..n |-> IF i <= Len(d) THEN d[i] ELSE 0]

\* a write loop that is content with the first Write
WriteLoop_OnePass(st, n, written) ==
  IF written = 0 THEN [res |-> "Eof", start |-> st]
  ELSE [res |-> "Ok", start |-> st + written]

\* The body of the loop of File::write / Socket::write after the Write
\* returned `written`, and the loop condition that follows it
WriteLoop(st, n, written) ==
  IF written = 0 THEN [res |-> "Eof", start |-> st]
  ELSE IF st + written # n THEN [res |-> "again", start |-> st + written]
  ELSE [res |-> "Ok", start |-> st + written]

\* File::write is called: with nothing to write it returns Ok at once,
\* otherwise the first Write is awaited.
FileWriteCall ==
  /\ fpc = "created"
  /\ fpc' = IF write_start # Len(input) THEN "write" ELSE "written"
  /\ fres' = IF write_start # Len(input) THEN fres ELSE "Ok"
  /\ UNCHANGED <<progVars, connVars, pumpVars, input, offset, write_start, wlog, file, data,
                 read_start, rres, fd_owner, close_state, closes>>

\* The Write that File::write awaits resolves: an error, or the number of
\* bytes the kernel wrote from &data[start..] at offset + start.
FileWriteDone(ioOk, written) ==
  /\ fpc = "write"
  /\ written <= Len(input) - write_start
  /\ ~ioOk => written = 0
  /\ LET r == WriteLoop(write_start, Len(input), written) IN
       /\ wlog' = Append(wlog, [off |-> offset + write_start,
                                len |-> Len(input) - write_start,
                                res |-> IF ioOk THEN written ELSE -1])
       /\ file' = IF ioOk /\ written > 0
                  THEN WriteAt(file, offset + write_start,
                               SubSeq(input, write_start + 1, write_start + written))
                  ELSE file
       /\ write_start' = IF ioOk THEN r.start ELSE write_start
       /\ fres' = IF ~ioOk THEN "Err" ELSE IF r.res = "again" THEN fres ELSE r.res
       /\ fpc' = IF ioOk /\ r.res = "again" THEN "write" ELSE "written"
  /\ UNCHANGED <<progVars, connVars, pumpVars, input, offset, data, read_start, rres, fd_owner,
                 close_state, closes>>

\* an into_raw that leaves the wrapper alive
FdIntoRaw_NoForget(owner) == owner

\* Fd::into_raw forgets the wrapper: its Drop will not run
FdIntoRaw(owner) == "forgotten"

\* The File is dropped: impl Drop for Fd closes the descriptor.
FileDrop ==
  /\ fpc = "written"
  /\ fd_owner = "file"
  /\ fd_owner' = "dropped"
  /\ closes' = closes + 1
  /\ fpc' = "closed"
  /\ UNCHANGED <<progVars, connVars, pumpVars, input, offset, write_start, wlog, fres, file,
                 data, read_start, rres, close_state>>

\* File::close: the Fd moves into a Close and the Close is polled.  With an
\* SQE the closure calls fd.into_raw() and fills IORING_OP_CLOSE; without
\* one the Close is Done with the error and is dropped with the Fd still in
\* it, which closes the descriptor.
FileClose(sqeOk) ==
  /\ fpc = "written"
  /\ fd_owner = "file"
  /\ LET owner == IF sqeOk THEN FdIntoRaw("close") ELSE "close" IN
       /\ close_state' = IF sqeOk THEN "Sent" ELSE "Done"
       /\ fd_owner' = IF owner = "forgotten" THEN owner ELSE "dropped"
       /\ closes' = IF owner = "forgotten" THEN closes ELSE closes + 1
       /\ fpc' = IF sqeOk THEN "closing" ELSE "close_failed"
  /\ UNCHANGED <<progVars, connVars, pumpVars, input, offset, write_start, wlog, fres, file,
                 data, read_start, rres>>

\* The ring takes the IORING_OP_CLOSE SQE and closes the descriptor; the
\* Close resolves with its result and is dropped.  `file.close().await?`
\* ends the task on an error.
KernelClose(res) ==
  /\ fpc = "closing"
  /\ close_state = "Sent"
  /\ closes' = closes + 1
  /\ close_state' = "Done"
  /\ fpc' = IF res < 0 THEN "close_failed" ELSE "closed"
  /\ UNCHANGED <<progVars, connVars, pumpVars, input, offset, write_start, wlog, fres, file,
                 data, read_start, rres, fd_owner>>

\* The body of the loop of File::read_all after the Read returned `read`
ReadAllLoop(d, st, read) ==
  LET start == st + read IN
  IF start # Len(d)
  THEN [res |-> "Ok", data |-> Resize(d, start), start |-> start]
  ELSE [res |-> "again", data |-> Resize(d, Len(d) * 2), start |-> start]

\* The file is opened again and read_all is called: the buffer is made and
\* the first Read is awaited.
FileReadAllCall ==
  /\ fpc = "closed"
  /\ data' = Resize(<<>>, InitialBuf)
  /\ read_start' = 0
  /\ fpc' = "read"
  /\ UNCHANGED <<progVars, connVars, pumpVars, input, offset, write_start, wlog, fres, file,
                 rres, fd_owner, close_state, closes>>

\* The Read that read_all awaits resolves: an error, or the number of bytes
\* the kernel read at offset `start` into &mut data[start..]: 0 at the end of
\* the file, otherwise at least one and at most what is there and fits.
FileReadDone(ioOk, read) ==
  /\ fpc = "read"
  /\ LET there == Max(Len(file) - read_start, 0)
         most == Min(there, Len(data) - read_start)
     IN /\ read <= most
        /\ read = 0 => most = 0 \/ ~ioOk
        /\ ~ioOk => read = 0
        /\ LET r == ReadAllLoop(
                      [i \in 1..Len(data) |->
                         IF i > read_start /\ i <= read_start + read THEN file[i] ELSE data[i]],
                      read_start, read)
           IN /\ data' = IF ioOk THEN r.data ELSE data
              /\ read_start' = IF ioOk THEN r.start ELSE read_start
              /\ rres' = IF ~ioOk THEN "Err" ELSE IF r.res = "again" THEN rres ELSE "Ok"
              /\ fpc' = IF ioOk /\ r.res = "again" THEN "read" ELSE "done"
  /\ UNCHANGED <<progVars, connVars, pumpVars, input, offset, write_start, wlog, fres, file,
                 fd_owner, close_state, closes>>

NextFile ==
  \/ FileWriteCall
  \/ \E ioOk \in BOOLEAN, written \in 0..MaxBytes : FileWriteDone(ioOk, written)
  \/ FileDrop
  \/ \E sqeOk \in BOOLEAN : FileClose(sqeOk)
  \/ \E res \in Res : KernelClose(res)
  \/ FileReadAllCall
  \/ \E ioOk \in BOOLEAN, read \in 0..(MaxOffset + MaxBytes) : FileReadDone(ioOk, read)

SpecFile == InitFile /\ [][NextFile]_vars

\* --------------------------------------------------- Device::process
\* SpecPump runs the receive pump of a Device on its own: run() calls
\* Device::process at the head of every iteration, tasks take buffers from
\* the free list and put them back, the adapter completes posted receives.
InitPump == ReactorNew /\ ConnIdle /\ FileIdle /\ DeviceNew

Top(st) == st[Len(st)]
PopTop(st) == SubSeq(st, 1, Len(st) - 1)

\* The while loop of Device::process: pop a slot and a buffer, store the
\* buffer in the slot, post the receive with wr_id = slot; a failing
\* ibv_post_srq_recv returns the error out of process.  failAt counts down
\* to the post that fails (0: none does).
RECURSIVE PostLoop(_, _)
PostLoop(d, failAt) ==
  IF d.slots = <<>> \/ d.free = <<>>
  THEN [d EXCEPT !.res = "Ok"]
  ELSE LET slot == Top(d.slots)
           buf == Top(d.free)
           d1 == [d EXCEPT !.slots = PopTop(d.slots), !.free = PopTop(d.free),
                           !.read_slot[slot] = buf]
       IN IF failAt = 1
          THEN [d1 EXCEPT !.res = "Err"]
          ELSE PostLoop([d1 EXCEPT !.posted = Append(@, [wr_id |-> slot, buf |-> buf])],
                        failAt - 1)

\* Device::process as run() calls it: the posting loop, then (unless a post
\* failed) the completions are polled; the IBV_WC_RECV arm does nothing.
\* run() does not look at what process returned.
DeviceProcess(failAt) ==
  /\ LET d == PostLoop([slots |-> slot_stack, free |-> buffer_stack,
                        read_slot |-> read_slot, posted |-> <<>>, res |-> "none"],
                       failAt)
     IN /\ failAt > 0 => d.res = "Err"
        /\ slot_stack' = d.slots
        /\ buffer_stack' = d.free
        /\ read_slot' = d.read_slot
        /\ srq' = srq \o d.posted
        /\ recv_wc' = IF d.res = "Ok" THEN <<>> ELSE recv_wc
        /\ pump_res' = d.res
  /\ UNCHANGED <<progVars, connVars, fileVars, user_bufs>>

\* Reactor::get_verbs_buffer: a task pops a buffer off the free list
GetVerbsBuffer ==
  /\ buffer_stack # <<>>
  /\ user_bufs' = user_bufs \cup {Top(buffer_stack)}
  /\ buffer_stack' = PopTop(buffer_stack)
  /\ pump_res' = "none"
  /\ UNCHANGED <<progVars, connVars, fileVars, read_slot, slot_stack, srq, recv_wc>>

\* Reactor::put_verbs_buffer: a task pushes a buffer it holds
PutVerbsBuffer(b) ==
  /\ b \in user_bufs
  /\ user_bufs' = user_bufs \ {b}
  /\ buffer_stack' = Append(buffer_stack, b)
  /\ pump_res' = "none"
  /\ UNCHANGED <<progVars, connVars, fileVars, read_slot, slot_stack, srq, recv_wc>>

\* The adapter fills a posted receive and writes its completion
RecvComplete(i) ==
  /\ i \in DOMAIN srq
  /\ recv_wc' = Append(recv_wc, [opcode |-> "RECV", wr_id |-> srq[i].wr_id])
  /\ srq' = SubSeq(srq, 1, i - 1) \o SubSeq(srq, i + 1, Len(srq))
  /\ pump_res' = "none"
  /\ UNCHANGED <<progVars, connVars, fileVars, read_slot, slot_stack, buffer_stack,
                 user_bufs>>

NextPump ==
  \/ \E failAt \in 0..PumpSlots : DeviceProcess(failAt)
  \/ GetVerbsBuffer
  \/ \E b \in Buffers : PutVerbsBuffer(b)
  \/ \E i \in 1..PumpSlots : RecvComplete(i)

SpecPump == InitPump /\ [][NextPump]_vars

\* ================================================================ claims
IsPrefix(a, b) == Len(a) <= Len(b) /\ SubSeq(b, 1, Len(a)) = a

\* C1: TaskQueue::pop returns a task of the highest-priority non-empty band:
\* whenever run() popped a task, every band of higher priority was empty and
\* the task was in its own band; whenever pop returned nothing (run() went on
\* to the CQE wait), all three bands were empty.
C1_PopHighestBand ==
  /\ ev.kind = "pop" =>
       /\ ev.before[priority[ev.task]] # <<>>
       /\ \A p \in Priorities : p < priority[ev.task] => ev.before[p] = <<>>
  /\ ev.kind = "block" => \A p \in Priorities : ev.before[p] = <<>>

\* a task was popped while a band of lower priority was not empty
C1_Witness ==
  /\ ev.kind = "pop"
  /\ \E p \in Priorities : p > priority[ev.task] /\ ev.before[p] # <<>>

\* C2: within a band tasks are polled in the order they were enqueued: in
\* every step each band of the ready queue and of the buffer-wait queue only
\* grows at its back (spawn, wake, CQE delivery, buffer wake-up), and the
\* task run() pops is the front of its band, the rest of the band keeping
\* its order.
C2_FifoWithinBand ==
  [][ /\ \A p \in Priorities :
           \/ IsPrefix(waiting_for_verbs_buffer[p], waiting_for_verbs_buffer'[p])
           \/ /\ waiting_for_verbs_buffer[p] # <<>>
              /\ waiting_for_verbs_buffer'[p] = Tail(waiting_for_verbs_buffer[p])
              /\ IsPrefix(Append(ready[p], Head(waiting_for_verbs_buffer[p])),
                          IF pc' = "poll" THEN ev'.before[p] ELSE ready'[p])
      /\ IF pc = "loop" /\ pc' = "poll"
         THEN \A p \in Priorities :
                /\ IsPrefix(ready[p], ev'.before[p])
                /\ IF p = priority[cur']
                   THEN /\ ev'.before[p] # <<>>
                        /\ cur' = Head(ev'.before[p])
                        /\ ready'[p] = Tail(ev'.before[p])
                   ELSE ready'[p] = ev'.before[p]
         ELSE \A p \in Priorities : IsPrefix(ready[p], ready'[p])
    ]_vars

\* two tasks were queued in one band and the one enqueued first was popped
C2_Witness ==
  /\ ev.kind = "pop"
  /\ Len(ev.before[priority[ev.task]]) >= 2
  /\ ev.task = Head(ev.before[priority[ev.task]])
\* ------------------------------------------------------------- C3, C4
Requested(t) == \E i \in DOMAIN callLog : callLog[i].t = t

\* C3 (as stated): once cancel() or timeout() was called on a computation
\* whose operation is Sent, the delivery of the operation's CQE leads to the
\* awaiter observing Cancel/Timeout: the run loop does not die consuming
\* that CQE, and no poll of the computation returns a success value.
C3_CancelledSentObserved ==
  \A i \in DOMAIN callLog :
    callLog[i].fs = "Sent" =>
      /\ ~(ev.kind = "cqe" /\ ev.task = callLog[i].t /\ ev.out = "panic")
      /\ ~(ev.kind = "poll" /\ ev.task = callLog[i].t /\ ev.opOk)

\* C4 (as stated): no poll of an operation returns a success value to a
\* computation whose state is Cancled or Timeouted, such a computation does
\* not finish successfully, and no computation without a cancel()/timeout()
\* request gets the error Cancel or Timeout.
C4_NoSuccessAfterCancel ==
  ev.kind = "poll" =>
    /\ ev.pre.tag \in {"Cancled", "Timeouted"} => ~ev.opOk /\ ev.out # "Ok"
    /\ ev.err \in {"Cancel", "Timeout"} => Requested(ev.task)

\* ------------------------------------------------------------- C5
CallsOf(m) == {i \in DOMAIN callLog : callLog[i].m = m}

\* C5: cancel() (timeout()) on a computation in state Inital returns Ok,
\* leaves it in Cancled (Timeouted) and does not go to the ring: no SQE is
\* acquired or filled, nothing is submitted, sq and the submitted SQEs are
\* the same after the call.
C5_InitalShortCircuit ==
  \A i \in DOMAIN callLog :
    callLog[i].pre.tag = "Inital" =>
      /\ callLog[i].ok
      /\ callLog[i].post =
           (IF callLog[i].m = "cancel" THEN St("Cancled") ELSE St("Timeouted"))
      /\ ~callLog[i].touched
      /\ callLog[i].ringSame
      /\ callLog[i].sqes = <<>>

\* both methods were called in state Inital, one of them while the operation
\* of the computation was already Sent and its SQE was in the ring
C5_Witness ==
  /\ \E i \in CallsOf("cancel") : callLog[i].pre.tag = "Inital"
  /\ \E i \in CallsOf("timeout") :
       /\ callLog[i].pre.tag = "Inital"
       /\ callLog[i].fs = "Sent"
  /\ sq \o inflight # <<>>

C7_Idempotent ==
  /\ pc # "panic"
  /\ \A i \in DOMAIN callLog : \A j \in DOMAIN callLog :
       (j = i + 1 /\ callLog[i].m = callLog[j].m /\ callLog[i].t = callLog[j].t) =>
         /\ callLog[j].pre = callLog[i].post
         /\ callLog[i].ok =>
              /\ callLog[j].ok
              /\ callLog[j].post = callLog[i].post
              /\ callLog[j].sqes = <<>>
         /\ Len(callLog[i].sqes) + Len(callLog[j].sqes) <= 1

\* the same method was called twice, the first call finding UringWaiting and
\* emitting the cancel SQE
C7_Witness ==
  /\ Len(callLog) = 2
  /\ callLog[1].m = callLog[2].m
  /\ callLog[1].pre.tag = "UringWaiting"
  /\ Len(callLog[1].sqes) = 1
  /\ callLog[2].post = callLog[1].post

\* ------------------------------------------------------------- C8
SqeCount(q, t) == Cardinality({i \in DOMAIN q : q[i].user_data = t})

\* The tokens of a task: its pointer in the user_data of an SQE not yet
\* completed or of a CQE not yet consumed
Tokens(t) == SqeCount(sq, t) + SqeCount(inflight, t) + SqeCount(cq, t)

\* C8: a ring operation dropped in a poll panics if and only if it is Sent,
\* and a Sent operation is one whose SQE was filled and whose result no poll
\* has taken: a token of the task is still in the ring.  Dropped in Initial
\* or in Done it does not panic.
C8_DropPanicsIffSent ==
  (ev.kind = "poll" /\ ev.dropped # "none") =>
    /\ (ev.out = "Panic") <=> (ev.dropped = "Sent")
    /\ ev.dropped = "Sent" => Tokens(ev.task) > 0
    /\ ev.out = "Panic" => pc = "panic"

\* an operation was dropped right after the poll that filled its SQE
C8_Witness ==
  /\ ev.kind = "poll" /\ ev.dropped = "Sent" /\ pc = "panic"
  /\ Tokens(ev.task) > 0

\* ------------------------------------------------------------- C9, C10
\* The holders of a task: its tokens, its entries in the two queues, the
\* references of the frame polling it, its handles
Holders(t, frame) ==
  Tokens(t) + Entries(ready, t) + Entries(waiting_for_verbs_buffer, t)
    + (IF cur = t THEN frame ELSE 0) + handles[t]

Terminal(t) == state[t].tag \in {"Cancled", "Timeouted"} \/ finished[t] # "no"

\* The SQEs and CQEs of a task still in the ring: its tokens and the cancel
\* requests that target it
Outstanding(t) ==
  Tokens(t) + Cardinality({i \in DOMAIN sq : sq[i].addr = t})
            + Cardinality({i \in DOMAIN inflight : inflight[i].addr = t})

\* C10 (as stated): no computation is terminal while an SQE emitted for it
\* has not had its CQE consumed.
C10_NoTerminalWhileOutstanding ==
  \A t \in 1..spawned : Terminal(t) => Outstanding(t) = 0
\* ------------------------------------------------------------- C11
\* The send tokens of a task: its pointer in the wr_id of a posted send or of
\* a send completion not yet polled
VerbsTokens(t) == Count(posted_sends, t) + Cardinality(SendsOf(verbs_cq, t))

\* In how many places a task is held between the steps of run()
Owners(t) ==
  Tokens(t) + VerbsTokens(t) + Entries(ready, t)
    + Entries(waiting_for_verbs_buffer, t)
    + (IF qp_waiting = t THEN 1 ELSE 0) + (IF cur = t THEN 1 ELSE 0)

C12_ErrorDoesNotAbort ==
  [][(pc = "poll" /\ ev'.kind = "poll" /\ ev'.out = "Err") =>
       /\ pc' = "loop"
       /\ finished'[cur] = "Err"
       /\ Entries(ready', cur) = 0
       /\ Entries(waiting_for_verbs_buffer', cur) = 0
       /\ ready' = ready
       /\ waiting_for_verbs_buffer' = waiting_for_verbs_buffer
       /\ sq' = sq /\ inflight' = inflight /\ cq' = cq
    ]_vars

\* after a task's body ended with an error run() went on to the blocking
\* step for the operation of another task
C12_Witness ==
  /\ pc = "wait" /\ ev.kind = "block"
  /\ \E u \in 1..spawned : finished[u] = "Err"
  /\ \E t \in 1..spawned : finished[t] = "no" /\ Tokens(t) > 0

\* ------------------------------------------------------------- C13
\* C13 (as stated): run() has returned an error only after get_cqe failed or
\* gave a null CQE, and a failing io_uring_submit in the blocking step makes
\* run() return the error.
C13_AbortsOnRingFailure ==
  /\ pc = "err" => ev.kind = "cqe_err"
  /\ (ev.kind = "block" /\ ev.out = "submit_failed") => pc = "err"

\* ------------------------------------------------------------- C14
\* C14: run() has no success return: it is in its loop, in a poll, in the
\* CQE wait, or it ended with an error or a panic; after the blocking step
\* it sits in the CQE wait, also when no SQE and no CQE is outstanding.
C14_NeverReturnsOk ==
  /\ pc \in {"loop", "poll", "wait", "panic", "ub", "err"}
  /\ ev.kind = "block" => pc = "wait"

\* run() blocks with every task finished and nothing in the ring
C14_Witness ==
  /\ pc = "wait" /\ ev.kind = "block"
  /\ spawned > 0
  /\ \A t \in 1..spawned : finished[t] # "no"
  /\ sq = <<>> /\ inflight = <<>> /\ cq = <<>>

\* ------------------------------------------------------------- C15
\* C15 (as stated): io_uring_get_sqe_submit ends with an SQE or an error;
\* when io_uring_get_sqe yields no slot after a submit attempt that did not
\* fail, it fails instead of submitting again.
C15_FailsAfterOneSubmit ==
  [][(pc = "sqe_get" /\ ev.kind = "submit" /\ Len(sq) >= RingEntries) =>
       pc' = "sqe_err"]_vars

\* The head of a loop iteration: the step of run() from the top of the loop
\* to the poll of the popped task or to the blocking wait
LoopHead == pc = "loop" /\ pc' \in {"poll", "wait"}
Parked(q) == {t \in 1..spawned : Entries(q, t) > 0}

\* C16 (amended): every loop iteration in which a buffer is free after the
\* receive pump moves exactly one parked task to the ready queue, the front
\* of the first non-empty band of the wait queue; an iteration with no free
\* buffer moves none and leaves the wait queue alone.
C16_OneWaiterPerIteration ==
  [][LoopHead =>
       LET W == waiting_for_verbs_buffer
           moved == Parked(W) \ Parked(W')
       IN IF free_buffers' > 0 /\ Parked(W) # {}
          THEN \E t \in Parked(W) :
                 /\ moved = {t}
                 /\ \A u \in Parked(W) : priority[t] <= priority[u]
                 /\ t = Head(W[priority[t]])
                 /\ W' = [W EXCEPT ![priority[t]] = Tail(@)]
                 /\ Entries(ev'.before, t) = 1
                 /\ woken' = woken \cup {t}
          ELSE W' = W /\ woken' = woken]_vars

\* a task was moved off the wait queue after a put_buffer while another
\* task stays parked
C16_Witness ==
  /\ pc = "poll" /\ woken # {}
  /\ Parked(waiting_for_verbs_buffer) # {}
  /\ \E t \in 1..spawned : body[t] = "buf" /\ finished[t] = "Ok"

\* C16 as stated: a waiter is moved to the ready queue only for a free
\* buffer of its own, no second waiter is woken for a buffer an earlier
\* woken waiter has not taken yet.
C16_OneWakePerPut ==
  [][(woken' \ woken # {}) => free_buffers' > Cardinality(woken)]_vars

\* The tasks that took a buffer from the pool and did not put it back
HoldsBuffer(t) ==
  \/ body[t] = "buf" /\ bpc[t] = 1
  \/ body[t] = "send" /\ bpc[t] >= 1
BuffersOut == Cardinality({t \in 1..spawned : HoldsBuffer(t)})
GetsBuffer == pc = "poll" /\ ev'.kind = "poll" /\ body[cur] \in {"buf", "send"}
                /\ bpc[cur] = 0

C18_SendCompletionEnqueues ==
  [][LoopHead =>
       \A t \in 1..spawned :
         SendsOf(verbs_cq, t) # {} => Entries(ev'.before, t) >= 1]_vars

\* C19: a poll in which a Send becomes Done leaves the buffer the Send
\* carried on the free list.
C19_DoneReturnsBuffer ==
  [][(pc = "poll" /\ ev'.kind = "poll" /\ body[cur] = "send"
        /\ op_state[cur] # "Done" /\ op_state'[cur] = "Done") =>
       free_buffers' = free_buffers - (IF bpc[cur] = 0 THEN 1 ELSE 0) + 1]_vars

RecvCompletions(c) == {i \in DOMAIN c : c[i].opcode = "RECV"}

\* C20: a loop head that takes receive completions from the verbs CQ appends
\* their buffers to the received FIFO, puts the QP's waiter on the ready
\* queue and returns their slots to the free-slot stack.
C20_RecvCompletionDelivers ==
  [][(LoopHead /\ RecvCompletions(verbs_cq) # {}) =>
       LET k == Cardinality(RecvCompletions(verbs_cq)) IN
       /\ received' = received + k
       /\ qp_waiting # NullPtr => Entries(ev'.before, qp_waiting) >= 1
       /\ empty_read_slots'
            = empty_read_slots - Min(empty_read_slots, free_buffers) + k]_vars

\* ------------------------------------------------------------- C21
\* C21: a queue pair goes through RESET, INIT, RTR, RTS in this order and
\* skips none; a ConnectionBuilder holds a QP in INIT and a Connection a QP
\* in RTS; and a failed ibv_modify_qp is the last one made on the QP: the
\* call returned the error and neither a builder nor a Connection holds the
\* QP afterwards.
C21_QpLifecycle ==
  \A p \in Peers :
    /\ IsPrefix(qp_trace[p], QpChain)
    /\ qp_state[p] = IF qp_trace[p] = <<>> THEN "none" ELSE qp_trace[p][Len(qp_trace[p])]
    /\ holder[p] = "builder" => qp_state[p] = "INIT"
    /\ holder[p] = "connection" => qp_state[p] = "RTS"
    /\ \A i \in DOMAIN modify_calls[p] :
         ~modify_calls[p][i].ok =>
           /\ i = Len(modify_calls[p])
           /\ holder[p] \notin {"builder", "connection"}
           /\ hres[p] = "Err"

\* the first modify of one peer's connect failed after the other peer got
\* its Connection
C21_Witness ==
  \E p \in Peers :
    /\ holder[Other(p)] = "connection"
    /\ modify_calls[p] = <<[to |-> "INIT", ok |-> TRUE], [to |-> "RTR", ok |-> FALSE]>>
    /\ qp_state[p] = "INIT" /\ holder[p] = "destroyed"

\* ------------------------------------------------------------- C25
\* A peer waits in read_item for bytes that its peer has not written, on a
\* connection its peer has not closed
Blocked(p) == hpc[p] = "read_addr" /\ tcp[p] = <<>> /\ sock[Other(p)] # "closed"

\* C25: the exchange never deadlocks (the two peers never both wait for the
\* other's address); a peer drives its QP to RTR/RTS only after it read the
\* remote address and after the TCP connection was closed; and messages are
\* posted only on a QP in RTS.
C25_ExchangeInOrder ==
  /\ ~(Blocked("client") /\ Blocked("server"))
  /\ \A p \in Peers :
       qp_state[p] \in {"RTR", "RTS"} => remote[p] = Other(p) /\ sock["client"] = "closed"
  /\ wire > 0 => qp_state["client"] = "RTS"

\* ------------------------------------------------------------- C22
RECURSIVE WrittenBy(_, _)
\* The bytes written by the first k Write operations of the log
WrittenBy(log, k) == IF k = 0 THEN 0 ELSE WrittenBy(log, k - 1) + log[k].res

\* C22: every Write that File::write awaits covers the suffix not yet
\* written, at offset + already written; every Write but the last wrote at
\* least one byte (so there are at most Len(input) of them); File::write
\* returns Ok only when the counts add up to the length of the input, and
\* the file then holds the input at the offset; it returns Eof after a Write
\* of 0 bytes and the error after a failed Write.
C22_WriteAllOrError ==
  LET n == Len(input)
      last == wlog[Len(wlog)]
  IN /\ \A i \in DOMAIN wlog :
          /\ wlog[i].off = offset + WrittenBy(wlog, i - 1)
          /\ wlog[i].len = n - WrittenBy(wlog, i - 1)
          /\ wlog[i].res <= wlog[i].len
          /\ i < Len(wlog) => wlog[i].res > 0
     /\ fres = "none" <=> fpc \in {"created", "write"}
     /\ fres = "Ok" =>
          /\ WrittenBy(wlog, Len(wlog)) = n
          /\ n > 0 => Len(file) >= offset + n
          /\ SubSeq(file, offset + 1, offset + n) = input
     /\ fres = "Eof" => wlog # <<>> /\ last.res = 0
     /\ fres = "Err" => wlog # <<>> /\ last.res = -1

\* File::write returned Ok after more than one Write, at an offset > 0
C22_Witness ==
  fres = "Ok" /\ Len(wlog) >= 2 /\ offset > 0 /\ Len(input) = MaxBytes

\* ------------------------------------------------------------- C23
\* C23: when the input was written at offset 0 of the new file and the file
\* was closed and opened again, a read_all that returns Ok returns the input,
\* whatever the Reads returned (the empty sequence for an empty file).
C23_ReadAllRoundTrip ==
  (fres = "Ok" /\ offset = 0 /\ rres = "Ok") => data = input

\* ------------------------------------------------------------- C24
\* C24: the descriptor of an Fd is closed exactly once on every path: by
\* Drop for Fd when the wrapper is dropped (also inside a Close that got no
\* SQE), or by the ring when the Close filled its SQE and forgot the
\* wrapper, whatever result the close completes with; never twice, and never
\* left open once the File and its Close are gone.
C24_ClosedExactlyOnce ==
  /\ closes <= 1
  /\ fd_owner = "file" => closes = 0 /\ close_state # "Sent"
  /\ fd_owner = "dropped" => closes = 1 /\ close_state # "Sent"
  /\ fd_owner = "forgotten" =>
       /\ close_state \in {"Sent", "Done"}
       /\ closes = 1 <=> close_state = "Done"
  /\ fpc \in {"closed", "close_failed", "read", "done"} => closes = 1

\* a Close that filled its SQE completed with an error
C24_Witness ==
  fpc = "close_failed" /\ fd_owner = "forgotten" /\ close_state = "Done" /\ closes = 1

\* ------------------------------------------------------------- C26
\* run() consumed a CQE in this step
ConsumesCqe == pc = "wait" /\ cq # <<>> /\ pc' # "wait" /\ ev'.kind = "cqe"

AfterCqe(s, res) ==
  CASE s.tag = "UringWaiting" -> UringDone(res)
    [] s.tag = "UringCanceling" -> St("Cancled")
    [] s.tag = "UringTimeouting" -> St("Timeouted")
    [] OTHER -> s

FirstPoll == pc = "poll" /\ pc' # "poll" /\ body[cur] = "io" /\ op_state[cur] = "Initial"

\* C27: the first poll of a ring operation either fills exactly one SQE that
\* carries the task's token, leaves the operation Sent and the task
\* UringWaiting and suspends, or gets no SQE: the operation is Done with
\* the error, no SQE was filled and no reference was leaked.
C27_FirstPollSubmits ==
  [][FirstPoll =>
       LET t == cur
           sqes == Len(sq) + Len(inflight)
           tokens == SqeCount(sq, t) + SqeCount(inflight, t)
       IN \/ /\ Len(sq') + Len(inflight') = sqes + 1
             /\ SqeCount(sq', t) + SqeCount(inflight', t) = tokens + 1
             /\ rc'[t] = rc[t] - 2 + 1
             /\ op_state'[t] = "Sent"
             /\ state'[t] = St("UringWaiting")
             /\ ev'.out = "Pending"
          \/ /\ Len(sq') + Len(inflight') = sqes
             /\ SqeCount(sq', t) + SqeCount(inflight', t) = tokens
             /\ rc'[t] = rc[t] - 2
             /\ op_state'[t] = "Done"
             /\ ev'.out = "Err"]_vars

\* ------------------------------------------------------------- C29
\* C29: run() is in the blocking CQE wait only with all three ready queues
\* empty and every SQE filled so far submitted, and a wait that returns a
\* CQE consumes that one CQE: the completion-queue head advances by one and
\* the loop goes on.
C29_BlocksOnlyWhenIdleAndSubmitted ==
  [][/\ pc' = "wait" => ready' = EmptyQueue /\ sq' = <<>>
     /\ ConsumesCqe => cq' = Tail(cq) /\ pc' = "loop"]_vars

\* ------------------------------------------------------------- C30
\* C30: after Device::process either no free slot index or no free buffer
\* remains; every posted receive has wr_id equal to its slot index and its
\* buffer is the one stored in that slot; a slot index is on the free-index
\* stack exactly when the slot is None; and at most rx_depth receives are
\* posted at once.
C30_PumpPostsAllPairs ==
  /\ pump_res # "none" => slot_stack = <<>> \/ buffer_stack = <<>>
  /\ \A i \in DOMAIN srq : srq[i].wr_id \in Slots /\ read_slot[srq[i].wr_id] = srq[i].buf
  /\ \A n \in Slots : (\E i \in DOMAIN slot_stack : slot_stack[i] = n) <=> read_slot[n] = 0
  /\ Len(srq) <= PumpSlots

\* ------------------------------------------------------------- C39
\* the states of a request in progress or finished
Requests == {"UringCanceling", "UringTimeouting", "Cancled", "Timeouted"}

\* C39: cancel() (timeout()) that finds UringDone(res) leaves the computation
\* Cancled (Timeouted), which carries no result, returns Ok and appends no
\* SQE; a call of either method that finds UringCanceling, UringTimeouting,
\* Cancled or Timeouted leaves the state as it is.
C39_DoneIsCancelledWithoutSqe ==
  \A i \in DOMAIN callLog :
    /\ callLog[i].pre.tag = "UringDone" =>
         /\ callLog[i].post =
              (IF callLog[i].m = "cancel" THEN St("Cancled") ELSE St("Timeouted"))
         /\ callLog[i].ok
         /\ callLog[i].sqes = <<>>
         /\ callLog[i].ringSame
    /\ callLog[i].pre.tag \in Requests =>
         /\ callLog[i].post = callLog[i].pre
         /\ callLog[i].sqes = <<>>

\* cancel() found UringDone with a positive result, and timeout() was called
\* on the Cancled computation afterwards
C39_Witness ==
  /\ Len(callLog) = 2
  /\ callLog[1].m = "cancel" /\ callLog[1].pre = UringDone(1)
  /\ callLog[2].m = "timeout" /\ callLog[2].pre = St("Cancled")
  /\ state[1] = St("Cancled")

\* ------------------------------------------------------------- C40
\* C40: cancel() (timeout()) that finds UringWaiting and fails to get the SQE
\* of its cancel request returns the error, leaves the state UringWaiting,
\* and no cancel SQE is in the ring: the ring is as the call found it.
C40_FailedCancelLeavesWaiting ==
  \A i \in DOMAIN callLog :
    (callLog[i].pre.tag = "UringWaiting" /\ ~callLog[i].ok) =>
      /\ callLog[i].post = St("UringWaiting")
      /\ callLog[i].sqes = <<>>
      /\ callLog[i].ringSame
      /\ callLog[i].touched

\* cancel() failed on a full submission queue and the computation is still
\* UringWaiting with no cancel SQE anywhere
C40_Witness ==
  /\ Len(callLog) = 1
  /\ callLog[1].m = "cancel" /\ callLog[1].pre.tag = "UringWaiting" /\ ~callLog[1].ok
  /\ state[1] = St("UringWaiting")
  /\ \A i \in DOMAIN sq : sq[i].opcode # "ASYNC_CANCEL"
  /\ Len(sq) = RingEntries

\* ------------------------------------------------------------- C35
\* C35: every CQE run() consumes is that of a task in state UringWaiting,
\* UringCanceling or UringTimeouting; the match on the state never takes
\* the panicking arm.
C35_CqeFindsSubmittedTask ==
  (ev.kind = "cqe" /\ ev.task # NullPtr) =>
    /\ ev.pre.tag \in {"UringWaiting", "UringCanceling", "UringTimeouting"}
    /\ ev.out # "panic"
    /\ pc # "panic"

\* ------------------------------------------------------------- C38
\* C38: when a task that was cancelled (timed out) in state Inital before it
\* submitted anything is polled for the first time, the poll fills no SQE
\* and submits nothing, and the operation ends with the Cancel (Timeout)
\* error.
C38_CancelledNeverSubmits ==
  [][(FirstPoll /\ bpc[cur] = 0 /\ state[cur].tag \in {"Cancled", "Timeouted"}) =>
       /\ sq' = sq
       /\ inflight' = inflight
       /\ ev'.out = "Err"
       /\ ev'.err = (IF state[cur].tag = "Cancled" THEN "Cancel" ELSE "Timeout")]_vars

\* ------------------------------------------------------------- C31
\* run() polls a task whose body awaits recv() while the received FIFO is
\* empty
RecvPollEmpty == pc = "poll" /\ ev'.kind = "poll" /\ body[cur] = "recv"
                   /\ finished[cur] = "no" /\ received = 0

\* C31: a recv polled on an empty FIFO with no waiter registers its task as
\* the QP's waiter and suspends; polled while another task is the waiter it
\* fails and the waiter stays; and the loop head that takes a receive
\* completion for the QP wakes the waiter, which leaves the slot empty for
\* the next recv.
C31_OneWaiter ==
  [][/\ (RecvPollEmpty /\ qp_waiting = NullPtr) =>
          qp_waiting' = cur /\ ev'.out = "Pending"
     /\ (RecvPollEmpty /\ qp_waiting \notin {NullPtr, cur}) =>
          qp_waiting' = qp_waiting /\ ev'.out = "Err" /\ ev'.err = "Io"
     /\ (LoopHead /\ RecvCompletions(verbs_cq) # {} /\ qp_waiting # NullPtr) =>
          qp_waiting' = NullPtr]_vars

\* ------------------------------------------------------------- C32
\* C32: the first poll of a yielding task pushes the task at the back of the
\* band of its priority and returns Pending, its second poll returns Ok; and
\* when the second poll is made, every task of a higher priority has been
\* polled to its end, every task of the same priority has been polled since
\* the first poll (those spawned earlier for the second time, those spawned
\* later for the first), and no task of a lower priority has been polled.
C32_YieldSuspendsOnce ==
  /\ [][(pc = "poll" /\ ev'.kind = "poll" /\ body[cur] = "yield") =>
          IF bpc[cur] = 0
          THEN /\ ev'.out = "Pending"
               /\ ready' = Push(ready, cur, priority[cur])
               /\ finished'[cur] = "no"
          ELSE /\ ev'.out = "Ok"
               /\ ready' = ready
               /\ finished'[cur] = "Ok"]_vars
  /\ [](\A t \in 1..spawned :
          (body[t] = "yield" /\ ev.kind = "poll" /\ ev.task = t /\ ev.out = "Ok") =>
            \A u \in 1..spawned :
              /\ priority[u] < priority[t] => finished[u] = "Ok"
              /\ (priority[u] = priority[t] /\ u < t) => finished[u] = "Ok"
              /\ (priority[u] = priority[t] /\ u > t) => bpc[u] = 1
              /\ priority[u] > priority[t] => bpc[u] = 0)

\* a task completed its yield with a task of each other band spawned, a task
\* of its own band polled once and still suspended
C32_Witness ==
  /\ ev.kind = "poll" /\ ev.out = "Ok" /\ priority[ev.task] = Normal
  /\ \E u \in 1..spawned : priority[u] = High
  /\ \E u \in 1..spawned : priority[u] = Low
  /\ \E u \in 1..spawned : u # ev.task /\ priority[u] = Normal /\ bpc[u] = 1

\* ------------------------------------------------------------- C33
\* run() has polled every task to its end
AllComplete == \A t \in 1..spawned : finished[t] = "Ok"

\* the tasks that were suspended by a poll
Suspended == {t \in 1..spawned : bpc[t] >= 1}

\* a poll of run() that returns Pending
ContextSwitch == pc = "poll" /\ ev'.kind = "poll" /\ ev'.out = "Pending"

\* C33 (as stated): when all N tasks have completed, floor(N / 3) * 3 polls
\* ended in suspension.
C33_SwitchesFloorOfBands ==
  AllComplete => Cardinality(Suspended) = (spawned \div 3) * 3

\* C33 (amended): a poll ends in suspension if and only if it is the first
\* poll of its task, so every task is suspended once; no poll fails or
\* panics; all N tasks complete; and when they have, N polls have ended in
\* suspension, one for each task.
C33_OneSwitchPerTask ==
  /\ [][(pc = "poll" /\ ev'.kind = "poll") =>
          /\ ContextSwitch <=> bpc[cur] = 0
          /\ bpc'[cur] = bpc[cur] + 1]_vars
  /\ [](pc # "panic" /\ \A t \in 1..spawned : finished[t] # "Err")
  /\ [](pc = "wait" => AllComplete)
  /\ [](AllComplete => Cardinality(Suspended) = spawned)
  /\ <>AllComplete

\* four tasks in three bands have completed
C33_Witness ==
  /\ pc = "wait" /\ spawned = YieldTasks /\ AllComplete
  /\ \A p \in Priorities : \E t \in 1..spawned : priority[t] = p

\* ------------------------------------------------------------- C34
\* run() polls a task whose CQE it consumed: the state holds the result
ResultPoll == pc = "poll" /\ ev'.kind = "poll" /\ body[cur] = "io"
                /\ op_state[cur] = "Sent" /\ state[cur].tag = "UringDone"

C36_VerbsCompletionProcessed ==
  /\ [](( pc = "wait" /\ verbs_cq # <<>>) => <>(verbs_cq = <<>>))
  /\ \A t \in 1..VerbsTasks :
       []((body[t] = "send" /\ op_state[t] = "Sent" /\ SendsOf(verbs_cq, t) # {})
            => <>(finished[t] # "no"))

\* The tasks that have a buffer in their hands: got and not yet put back, or
\* carried by a Send that is not Done
InHands ==
  {t \in 1..spawned : \/ body[t] = "buf" /\ bpc[t] = 1
                      \/ body[t] = "send" /\ bpc[t] = 1 /\ op_state[t] # "Done"}

\* C37: the 2 * RxDepth buffers of the pool are conserved: at every moment
\* each is on the free list, in an occupied receive slot, in the received
\* FIFO or in the hands of a task (a pending Send included).
C37_BuffersConserved ==
  free_buffers + (RxDepth - empty_read_slots) + received + Cardinality(InHands)
    = 2 * RxDepth

====
